---- MODULE Spec2Model ----
(***************************************************************************)
(* Model of the masonry layout calculator and the visibility selector of   *)
(* lib/masonry-utils (calculateMasonryLayout, getVisibleItems), of the     *)
(* load coordination of HomePage (app/page.tsx) and of the usePhotos hook. *)
(*                                                                         *)
(* Lengths are pixels.  The source computes them in floating point; the    *)
(* model computes them exactly, and the container widths, the gap and the  *)
(* photo dimensions it draws are chosen such that every quotient the       *)
(* layout takes is an integer (see Quot).                                  *)
(***************************************************************************)
EXTENDS Integers, Sequences, FiniteSets, TLC

\* ------------------------------------------------------------------------
\* Bounds of the model
\* ------------------------------------------------------------------------
MaxPhotos == 3          \* longest enumerated photo list of GridSpec
MaxCachePhotos == 2     \* longest photo list of CacheSpec
MaxCalls == 2           \* calculateMasonryLayout calls in one run of CacheSpec
MaxRequests == 4        \* listing requests HomePage issues in one run
MaxSourcePhotos == 100  \* photos of the largest curated listing
MaxHookCalls == 3       \* loadPhotos calls in one run of PhotosSpec
MaxScrolls == 3         \* raw scroll events in one run of ViewSpec
MaxResizes == 1         \* size changes of the container in one run of ViewSpec
MaxTime == 40           \* latest time of a scroll event, a size change, the unmount
MaxSearchCalls == 3     \* updateSearchQuery and clearSearch calls in one run
MaxSearchTime == 300200 \* latest time (ms) of a search call and of an idle wait
MaxEngineCalls == 2     \* calculateLayout calls in one run of EngineSpec
MaxEnginePhotos == 2    \* longest photo list of EngineSpec

\* ------------------------------------------------------------------------
\* Program constants (masonry-utils)
\* ------------------------------------------------------------------------
BATCH_SIZE == 50
MIN_COLUMN_SPAN == 1
MAX_COLUMN_SPAN == 3
\* ASPECT_RATIO_THRESHOLD = 1.0 and WIDE_IMAGE_THRESHOLD = 1.5, as fractions
ASPECT_RATIO_THRESHOLD == <<1, 1>>
WIDE_IMAGE_THRESHOLD == <<3, 2>>
LayoutCacheLimit == 100
LayoutCacheKeep == 50
DefaultGap == 16
DefaultBuffer == 200
VelocityFactor == 10
MaxBuffer == 1000

\* Program constants (app/page.tsx, hooks/use-photos)
PageSize == 40          \* per_page of loadCuratedPhotos and loadMore
PreloadSize == 20       \* per_page of the preload
HookPageSize == 10      \* per_page of usePhotos.loadPhotos

\* ------------------------------------------------------------------------
\* Inputs
\* ------------------------------------------------------------------------
\* PexelsPhoto records: the fields the layout reads (id, width, height).
\* Aspect ratios 0.5, 1, 4/3 and 2: spans 1, 1, 2 and 3 before the cap.
PhotoCatalogue ==
  << [id |-> 1, width |-> 400, height |-> 800],
     [id |-> 2, width |-> 400, height |-> 400],
     [id |-> 3, width |-> 800, height |-> 600],
     [id |-> 4, width |-> 800, height |-> 400] >>

PhotoIds == 1..Len(PhotoCatalogue)

Photo(id) == PhotoCatalogue[id]

\* every photo list of length 0..n
ListsUpTo(n) == UNION { [1..k -> PhotoIds] : k \in 0..n }

\* lists one and two photos longer than a batch, cycling a two-photo pattern
Cycle(pattern, n) == [i \in 1..n |-> pattern[((i - 1) % Len(pattern)) + 1]]

LongLists ==
  { Cycle(p, BATCH_SIZE + 1) : p \in [1..2 -> PhotoIds] }

PhotoLists == ListsUpTo(MaxPhotos) \cup LongLists

\* container widths: 8 and 32 give a column width <= 0 for some column count
Widths == {8, 32, 800}
ColumnCounts == {1, 2, 3}
Gaps == {DefaultGap}

\* CacheSpec: photo sets of a square and a 4:3 photo, laid out in a container
\* of two or three columns
CachePhotoIds == {2, 3}
CacheLists == UNION { [1..k -> CachePhotoIds] : k \in 0..MaxCachePhotos }
CacheWidths == {800}
CacheColumnCounts == {2, 3}

ScrollTops == {-300, 0, 200, 400, 600, 800, 1000, 1400}
ContainerHeights == {100, 600}
Velocities == {-10, 0, 40, 100}

\* ------------------------------------------------------------------------
\* Arithmetic helpers
\* ------------------------------------------------------------------------
Min(a, b) == IF a < b THEN a ELSE b
Max(a, b) == IF a > b THEN a ELSE b
Abs(a) == IF a < 0 THEN -a ELSE a
SetMax(S) == CHOOSE x \in S : \A y \in S : y <= x

\* a / b for the operands the layout divides (the quotient is an integer)
Quot(a, b) == a \div b

\* Math.ceil(n / d) for n >= 0, d > 0
Ceil(n, d) == (n + d - 1) \div d

\* Math.floor((a + b) / 2) for a, b >= 0
Mid(a, b) == (a + b) \div 2

\* ------------------------------------------------------------------------
\* calculateMasonryLayout
\* ------------------------------------------------------------------------
\* aspectRatio = photo.width / photo.height, compared as a fraction
RatioGreater(photo, threshold) ==
  photo.width * threshold[2] > photo.height * threshold[1]

\* (a, b) => b.aspectRatio - a.aspectRatio < 0 : a sorts strictly before b
SortsBefore(a, b) ==
  a.photo.width * b.photo.height > b.photo.width * a.photo.height

\* ColumnSpanOf without "columnSpan = Math.min(columnSpan, columnCount)"
ColumnSpanUncapped(photo, columnCount) ==
  IF RatioGreater(photo, WIDE_IMAGE_THRESHOLD) THEN MAX_COLUMN_SPAN
  ELSE IF RatioGreater(photo, ASPECT_RATIO_THRESHOLD)
    THEN Min(Max(Ceil(photo.width, photo.height), MIN_COLUMN_SPAN),
             MAX_COLUMN_SPAN)
  ELSE MIN_COLUMN_SPAN

\* the column span of one photo: wide threshold, proportional span, cap
ColumnSpanOf(photo, columnCount) ==
  LET ratio == Ceil(photo.width * ASPECT_RATIO_THRESHOLD[2],
                    photo.height * ASPECT_RATIO_THRESHOLD[1])
      span == IF RatioGreater(photo, WIDE_IMAGE_THRESHOLD)
                THEN MAX_COLUMN_SPAN
              ELSE IF RatioGreater(photo, ASPECT_RATIO_THRESHOLD)
                THEN Min(Max(ratio, MIN_COLUMN_SPAN), MAX_COLUMN_SPAN)
              ELSE MIN_COLUMN_SPAN
  IN  Min(span, columnCount)

\* batch.map(...): photo, aspect ratio (kept in the photo) and column span
PhotoData(batch, columnCount) ==
  [i \in 1..Len(batch) |->
     [photo |-> Photo(batch[i]),
      columnSpan |-> ColumnSpanOf(Photo(batch[i]), columnCount)]]

\* photoData.sort((a, b) => b.aspectRatio - a.aspectRatio), which is stable:
\* entry i ends behind the entries that sort strictly before it and behind
\* the earlier entries it does not sort strictly before
SortBatch(data) ==
  LET n == Len(data)
      Rank(i) == Cardinality({ j \in 1..n :
                   \/ SortsBefore(data[j], data[i])
                   \/ (j < i /\ ~SortsBefore(data[i], data[j])) }) + 1
      ranks == SubSeq([i \in 1..n |-> Rank(i)], 1, n)
  IN  SubSeq([k \in 1..n |-> data[CHOOSE i \in 1..n : ranks[i] = k]], 1, n)

\* Math.max(...columnHeights.slice(j, j + columnSpan)), j is 0-based
WindowMax(columnHeights, j, columnSpan) ==
  SetMax({ columnHeights[k + 1] :
             k \in j..(Min(j + columnSpan, Len(columnHeights)) - 1) })

\* last starting position the search tries
\* LastStart that lets a run start at column 0 only
LastStartFirstOnly(columnCount, columnSpan) == 0

LastStart(columnCount, columnSpan) == columnCount - columnSpan

\* for (j = 0; j <= columnCount - columnSpan; j++): the first start whose
\* window maximum is strictly smaller than every earlier one; minHeight
\* starts at Infinity (inf) and shortestColumnIndex at 0
RECURSIVE ScanStarts(_, _, _, _, _)
ScanStarts(columnHeights, columnCount, columnSpan, j, best) ==
  IF j > LastStart(columnCount, columnSpan) THEN best
  ELSE LET maxHeight == WindowMax(columnHeights, j, columnSpan)
           next == IF best.inf \/ maxHeight < best.minHeight
                     THEN [inf |-> FALSE, minHeight |-> maxHeight,
                           shortestColumnIndex |-> j]
                   ELSE best
       IN  ScanStarts(columnHeights, columnCount, columnSpan, j + 1, next)

ShortestRun(columnHeights, columnCount, columnSpan) ==
  ScanStarts(columnHeights, columnCount, columnSpan, 0,
             [inf |-> TRUE, minHeight |-> 0, shortestColumnIndex |-> 0])

\* ColumnWidth with one gap per column instead of one gap between columns
ColumnWidthGapPerColumn(containerWidth, columnCount, gap) ==
  Quot(containerWidth - gap * columnCount, columnCount)

ColumnWidth(containerWidth, columnCount, gap) ==
  Quot(containerWidth - gap * (columnCount - 1), columnCount)

\* itemWidth / aspectRatio
ItemHeight(photo, columnSpan, columnWidth, gap) ==
  LET itemWidth == columnWidth * columnSpan + gap * (columnSpan - 1)
  IN  Quot(itemWidth * photo.height, photo.width)

\* Spanned that raises the first column of the span only
SpannedFirstOnly(columnHeights, shortestColumnIndex, columnSpan, height) ==
  SubSeq(columnHeights, 1, shortestColumnIndex)
    \o << height >>
    \o SubSeq(columnHeights, shortestColumnIndex + 2, Len(columnHeights))

\* for (j = 0; j < columnSpan; j++)
\*   columnHeights[shortestColumnIndex + j] = minHeight + itemHeight + gap
Spanned(columnHeights, shortestColumnIndex, columnSpan, height) ==
  SubSeq(columnHeights, 1, shortestColumnIndex)
    \o [j \in 1..columnSpan |-> height]
    \o SubSeq(columnHeights, shortestColumnIndex + columnSpan + 1,
              Len(columnHeights))

\* one step of photoData.forEach: the grid item and the new column heights
PlaceOne(datum, columnHeights, columnCount, columnWidth, gap) ==
  LET run == ShortestRun(columnHeights, columnCount, datum.columnSpan)
      itemHeight == ItemHeight(datum.photo, datum.columnSpan, columnWidth, gap)
      item == [photo |-> datum.photo.id,
               height |-> itemHeight,
               column |-> run.shortestColumnIndex,
               top |-> run.minHeight,
               columnSpan |-> datum.columnSpan]
      heights == Spanned(columnHeights, run.shortestColumnIndex,
                         datum.columnSpan, run.minHeight + itemHeight + gap)
  IN  [item |-> item, columnHeights |-> heights]

\* photoData.forEach over the entries lo..hi of one sorted batch, in index
\* order; st = [items, columnHeights].  The range is split in halves (the
\* left half is placed first), which keeps the evaluation depth logarithmic
RECURSIVE PlaceBatch(_, _, _, _, _, _, _)
PlaceBatch(data, lo, hi, st, columnCount, columnWidth, gap) ==
  IF lo > hi THEN st
  ELSE IF lo = hi
    THEN LET r == PlaceOne(data[lo], st.columnHeights, columnCount,
                           columnWidth, gap)
         IN  [items |-> Append(st.items, r.item),
              columnHeights |-> r.columnHeights]
  ELSE LET left == PlaceBatch(data, lo, Mid(lo, hi), st,
                              columnCount, columnWidth, gap)
       IN  \* the test always holds; it makes left be computed first
           IF Len(left.items) >= Len(st.items)
             THEN PlaceBatch(data, Mid(lo, hi) + 1, hi, left,
                             columnCount, columnWidth, gap)
           ELSE left

\* the order in which one batch is placed and pushed
BatchOrder(data) == SortBatch(data)

\* for (i = 0; i < photos.length; i += BATCH_SIZE), i is 0-based
RECURSIVE PlaceFrom(_, _, _, _, _, _)
PlaceFrom(photos, i, st, columnCount, columnWidth, gap) ==
  IF i >= Len(photos) THEN st
  ELSE LET batch == SubSeq(photos, i + 1, Min(i + BATCH_SIZE, Len(photos)))
           data == BatchOrder(PhotoData(batch, columnCount))
       IN  PlaceFrom(photos, i + BATCH_SIZE,
                     PlaceBatch(data, 1, Len(data), st,
                                columnCount, columnWidth, gap),
                     columnCount, columnWidth, gap)

\* the placement loop of a cache miss
PlaceAll(photos, containerWidth, columnCount, gap) ==
  PlaceFrom(photos, 0,
            [items |-> << >>, columnHeights |-> SubSeq([c \in 1..columnCount |-> 0], 1, columnCount)],
            columnCount, ColumnWidth(containerWidth, columnCount, gap),
            gap).items

\* `${photos.length}-${containerWidth}-${columnCount}`
CacheKey(photos, containerWidth, columnCount) ==
  << Len(photos), containerWidth, columnCount >>

\* layoutCache is a Map: entries in insertion order
CacheHas(cache, key) == \E e \in 1..Len(cache) : cache[e].key = key
CacheGet(cache, key) ==
  cache[CHOOSE e \in 1..Len(cache) : cache[e].key = key].items

\* Evict deleting the newest entries instead of the oldest
EvictNewest(entries) ==
  IF Len(entries) > LayoutCacheLimit
    THEN SubSeq(entries, 1, LayoutCacheKeep)
  ELSE entries

\* if (layoutCache.size > 100): delete the first keys.length - 50 keys
Evict(entries) ==
  IF Len(entries) > LayoutCacheLimit
    THEN SubSeq(entries, Len(entries) - LayoutCacheKeep + 1, Len(entries))
  ELSE entries

\* CacheInsert without the layoutCache.set
CacheInsertSkipped(cache, key, items) == cache

\* layoutCache.set for a key that is not in the map, then the eviction of
\* the oldest keys.length - 50 entries once the map holds more than 100
CacheInsert(cache, key, items) ==
  Evict(Append(cache, [key |-> key, items |-> items]))

\* the whole call: result, cache afterwards, and whether the placement
\* loop ran or the cache answered
CalculateMasonryLayout(cache, photos, containerWidth, columnCount, gap) ==
  IF Len(photos) = 0 \/ containerWidth = 0 \/ columnCount = 0
    THEN [items |-> << >>, cache |-> cache, placed |-> FALSE, hit |-> FALSE,
          thrown |-> FALSE]
  ELSE IF CacheHas(cache, CacheKey(photos, containerWidth, columnCount))
    THEN [items |-> CacheGet(cache, CacheKey(photos, containerWidth, columnCount)),
          cache |-> cache, placed |-> FALSE, hit |-> TRUE, thrown |-> FALSE]
  ELSE IF columnCount < 0
    \* new Array(columnCount) throws a RangeError
    THEN [items |-> << >>, cache |-> cache, placed |-> FALSE, hit |-> FALSE,
          thrown |-> TRUE]
  ELSE LET items == PlaceAll(photos, containerWidth, columnCount, gap)
       IN  [items |-> items,
            cache |-> CacheInsert(cache,
                        CacheKey(photos, containerWidth, columnCount), items),
            placed |-> TRUE, hit |-> FALSE, thrown |-> FALSE]

\* ------------------------------------------------------------------------
\* getVisibleItems
\* ------------------------------------------------------------------------
Buffer(scrollVelocity, defaultBuffer) ==
  Min(defaultBuffer + Abs(scrollVelocity) * VelocityFactor, MaxBuffer)

ViewportTop(scrollTop, scrollVelocity) ==
  scrollTop - Buffer(scrollVelocity, DefaultBuffer)

ViewportBottom(scrollTop, containerHeight, scrollVelocity) ==
  scrollTop + containerHeight + Buffer(scrollVelocity, DefaultBuffer)

\* while (start <= end): indices are 0-based as in the source
RECURSIVE BinarySearch(_, _, _, _, _)
BinarySearch(items, viewportTop, start, end, firstVisibleIndex) ==
  IF start > end THEN firstVisibleIndex
  ELSE LET mid == Mid(start, end)
           itemBottom == items[mid + 1].top + items[mid + 1].height
       IN  IF itemBottom >= viewportTop
             THEN BinarySearch(items, viewportTop, start, mid - 1, mid)
           ELSE BinarySearch(items, viewportTop, mid + 1, end, firstVisibleIndex)

\* the two fast paths, then the binary search
FirstVisibleIndex(items, viewportTop) ==
  LET end == Len(items) - 1
  IN  IF items[1].top + items[1].height >= viewportTop THEN 0
      ELSE IF items[end + 1].top <= viewportTop THEN end
      ELSE BinarySearch(items, viewportTop, 0, end, 0)

\* for (i = firstVisibleIndex; i < items.length; i++)
\*   { if (item.top > viewportBottom) break; visibleItems.push(item) }
\* i is 0-based; the loop stops in front of the first item from i on whose
\* top lies below the viewport
CollectVisible(items, i, viewportBottom) ==
  LET breaks == { k \in (i + 1)..Len(items) : items[k].top > viewportBottom }
      stop == IF breaks = {} THEN Len(items) + 1
              ELSE CHOOSE k \in breaks : \A l \in breaks : k <= l
  IN  SubSeq(items, i + 1, stop - 1)

GetVisibleItems(items, scrollTop, containerHeight, scrollVelocity) ==
  IF Len(items) = 0 THEN << >>
  ELSE CollectVisible(items,
         FirstVisibleIndex(items, ViewportTop(scrollTop, scrollVelocity)),
         ViewportBottom(scrollTop, containerHeight, scrollVelocity))

\* ------------------------------------------------------------------------
\* calculateTotalHeight
\* ------------------------------------------------------------------------
\* columnItems[c]: the indices of the items whose column is c
ColumnItems(items, c) == { i \in 1..Len(items) : items[i].column = c }

\* LastItem that takes the first item of the column
LastItemFirst(items, c) ==
  LET column == ColumnItems(items, c)
  IN  CHOOSE i \in column : \A j \in column : i <= j

\* columnItems.reduce((tallest, item) => item.top > tallest.top ? item :
\* tallest, columnItems[0]): the first item of the column with the largest top
LastItem(items, c) ==
  LET column == ColumnItems(items, c)
      largest == SetMax({ items[i].top : i \in column })
      tallest == { i \in column : items[i].top = largest }
  IN  CHOOSE i \in tallest : \A j \in tallest : i <= j

\* lastItem.top + lastItem.height of column c
ColumnHeight(items, c) ==
  LET lastItem == items[LastItem(items, c)]
  IN  lastItem.top + lastItem.height

CalculateTotalHeight(items) ==
  IF Len(items) = 0 THEN 0
  ELSE SetMax({0} \cup
         { ColumnHeight(items, c) :
             c \in { items[i].column : i \in 1..Len(items) } })

\* ------------------------------------------------------------------------
\* State
\* ------------------------------------------------------------------------
VARIABLES
  layoutCache,      \* module-level Map of masonry-utils
  photos,           \* arguments of the latest calculateMasonryLayout call
  containerWidth,
  columnCount,
  gap,
  gridItems,        \* its result
  placed,           \* the latest call ran the placement loop
  cacheHit,         \* the latest call was answered by layoutCache
  thrown,           \* the latest call threw
  calls,            \* number of calculateMasonryLayout calls so far
  prevCall,         \* arguments and result of the call before the latest
  scrollTop,        \* arguments of the latest getVisibleItems call
  containerHeight,
  scrollVelocity,
  visibleItems,     \* its result
  gpc,              \* "input", "laid" or "selected"; "calls" in CacheSpec
  \* HomePage (app/page.tsx)
  homePhotos,       \* useState photos
  loading,
  error,            \* "null" or the message shown
  page,
  hasMore,
  abortControllerRef, \* 0 (null) or the id of the request the controller serves
  apiCache,         \* Map of createAdvancedCache: entries in insertion order
  isSearchActive,   \* searchQuery.trim().length > 0 of useUltraFastSearch
  preloadTimer,     \* "armed" or "idle": the 2 s timeout of the preload effect
  inflight,         \* fetchCuratedPhotos calls that have not settled, oldest first
  issued,           \* number of requests issued so far
  sourceTotal,      \* number of photos of the curated listing
  mounted,          \* the mount effects have run
  lastEvent,        \* the handler of HomePage that ran last
  \* usePhotos (hooks/use-photos)
  hookPhotos,
  hookLoading,
  hookError,
  hookHasMore,
  hookPage,
  currentQuery,
  hookInflight,     \* loadPhotos calls waiting for their response, oldest first
  hookCalls,        \* number of loadPhotos calls so far
  superseded,       \* a call was made while a call for another query waited
  hookRequests,     \* the requests loadPhotos has sent, oldest first
  \* useUltraFastSearch (hooks/use-ultra-fast-search) and its inline worker
  allPhotos,        \* the photo list the hook was given
  searchQuery,
  searchResults,
  isSearching,
  searchCached,     \* searchStats.cached
  debounceTimeout,  \* the pending timer of performSearch: its query and due time
  searchCache,      \* searchCache of the current worker
  workerInbox,      \* SEARCH messages posted to the current worker
  workerOutbox,     \* messages the current worker posted back
  searchTime,       \* Date.now() of the search model
  scored,           \* the runs of fuzzySearch so far: query and time
  searchCalls,      \* number of updateSearchQuery and clearSearch calls so far
  \* UltraVirtualizationEngine and its worker
  itemCache,
  listeners,        \* the message listeners of pending calculateLayout calls
  engineInbox,      \* CALCULATE_LAYOUT messages posted to the worker
  engineOutbox,     \* LAYOUT_RESULT messages the worker posted back
  resolved,         \* the calculateLayout promises resolved so far
  engineCalls,      \* number of calculateLayout calls so far
  \* VirtualizedMasonryGrid: scroll and resize handling
  now,              \* Date.now()
  gridMounted,
  elementScrollTop, \* scrollTop of the container element
  elementRect,      \* << width, height >> of its getBoundingClientRect()
  gridWidth,        \* useState containerWidth
  gridHeight,       \* useState containerHeight
  gridScrollTop,    \* useState scrollTop
  velocity,         \* useState scrollVelocity, a fraction
  lastScrollTop,    \* refs of the component
  lastScrollTime,
  isScrolling,
  scrollingTimeout, \* the quiet-period timer
  inThrottle,       \* closure of throttle
  lastRan,
  lastFunc,         \* the trailing timer of throttle
  debounceTimer,    \* timeout of the debounce of the rendered handleResize
  rafPending,       \* rafId names a frame that was requested and has not run
  resizeObserving,  \* the ResizeObserver is connected
  resizeQueued,     \* it has a callback to deliver
  loadMoreObserving, \* the IntersectionObserver is connected
  bodyTimes,        \* the times the body of handleScroll ran at
  rawEvents,        \* number of raw scroll events so far
  resizes           \* number of size changes of the container so far

layoutVars == << layoutCache, photos, containerWidth, columnCount, gap,
                 gridItems, placed, cacheHit, thrown, calls, prevCall >>
selectVars == << scrollTop, containerHeight, scrollVelocity, visibleItems >>
gridVars == << layoutVars, selectVars, gpc >>
pageVars == << homePhotos, loading, error, page, hasMore, abortControllerRef,
               apiCache, isSearchActive, preloadTimer, inflight, issued,
               sourceTotal, mounted, lastEvent >>
hookVars == << hookPhotos, hookLoading, hookError, hookHasMore, hookPage,
               currentQuery, hookInflight, hookCalls, superseded,
               hookRequests >>
viewVars == << now, gridMounted, elementScrollTop, elementRect, gridWidth,
               gridHeight, gridScrollTop, velocity, lastScrollTop,
               lastScrollTime, isScrolling, scrollingTimeout, inThrottle,
               lastRan, lastFunc, debounceTimer, rafPending, resizeObserving,
               resizeQueued, loadMoreObserving, bodyTimes, rawEvents, resizes >>
searchVars == << allPhotos, searchQuery, searchResults, isSearching,
                 searchCached, debounceTimeout, searchCache, workerInbox,
                 workerOutbox, searchTime, scored, searchCalls >>
engineVars == << itemCache, listeners, engineInbox, engineOutbox, resolved,
                 engineCalls >>
vars == << gridVars, pageVars, hookVars, viewVars, searchVars, engineVars >>

NoCall == [photos |-> << >>, containerWidth |-> 0, columnCount |-> 0,
           gap |-> 0, items |-> << >>]

LatestCall == [photos |-> photos, containerWidth |-> containerWidth,
               columnCount |-> columnCount, gap |-> gap, items |-> gridItems]

SelectIdle ==
  /\ scrollTop = 0
  /\ containerHeight = 0
  /\ scrollVelocity = 0
  /\ visibleItems = << >>

\* the grid before any layout call (PageSpec and PhotosSpec leave it there)
GridIdle ==
  /\ layoutCache = << >>
  /\ photos = << >>
  /\ containerWidth = 0
  /\ columnCount = 0
  /\ gap = 0
  /\ gridItems = << >>
  /\ placed = FALSE
  /\ cacheHit = FALSE
  /\ thrown = FALSE
  /\ calls = 0
  /\ prevCall = NoCall
  /\ SelectIdle

\* HomePage after its first render, for a listing of total photos
PageInitial(total) ==
  /\ homePhotos = << >>
  /\ loading = FALSE
  /\ error = "null"
  /\ page = 1
  /\ hasMore = TRUE
  /\ abortControllerRef = 0
  /\ apiCache = << >>
  /\ isSearchActive = FALSE
  /\ preloadTimer = "idle"
  /\ inflight = << >>
  /\ issued = 0
  /\ sourceTotal = total
  /\ mounted = FALSE
  /\ lastEvent = "none"

\* usePhotos after its first render
HookInitial ==
  /\ hookPhotos = << >>
  /\ hookLoading = FALSE
  /\ hookError = "null"
  /\ hookHasMore = TRUE
  /\ hookPage = 1
  /\ currentQuery = ""
  /\ hookInflight = << >>
  /\ hookCalls = 0
  /\ superseded = FALSE
  /\ hookRequests = << >>

\* ------------------------------------------------------------------------
\* ViewSpec: the scroll and resize handling of VirtualizedMasonryGrid
\*
\* Time is counted in ms.  A timer is the time it is due at, or Never; it fires
\* when it is due, and time does not pass a due timer.
\* ------------------------------------------------------------------------
Never == -1

ThrottleLimit == 16       \* throttle(..., 16)
DebounceWait == 100       \* debounce(..., 100)
QuietPeriod == 150        \* setTimeout(..., 150) of handleScroll

ScrollPositions == {0, 120, 480}
Rects == {<< 800, 600 >>, << 640, 600 >>}
TickSteps == {8, 100}

Zero == << 0, 1 >>

\* prev * 0.8 + rawVelocity * 0.2 with rawVelocity = deltaScroll / timeDelta,
\* on fractions << numerator, denominator >>
Smoothed(prev, deltaScroll, timeDelta) ==
  LET n == 4 * prev[1] * timeDelta + deltaScroll * prev[2]
  IN  IF n = 0 THEN Zero ELSE << n, 5 * prev[2] * timeDelta >>

Timers == {lastFunc, debounceTimer, scrollingTimeout} \ {Never}

NextDue == CHOOSE t \in Timers : \A u \in Timers : t <= u

\* inThrottle after the first run of the throttled function, the mutant first
InThrottleReset == FALSE

InThrottleAfterRun == TRUE

\* the grid after its first render and its effects, at time 0: the resize
\* effect has observed the container and called handleResize(), the load-more
\* effect has created its observer when hasMore is set
ViewInitial(rect, more) ==
  /\ now = 0
  /\ gridMounted = TRUE
  /\ elementScrollTop = 0
  /\ elementRect = rect
  /\ gridWidth = 0
  /\ gridHeight = 0
  /\ gridScrollTop = 0
  /\ velocity = Zero
  /\ lastScrollTop = 0
  /\ lastScrollTime = 0
  /\ isScrolling = FALSE
  /\ scrollingTimeout = Never
  /\ inThrottle = FALSE
  /\ lastRan = 0
  /\ lastFunc = Never
  /\ debounceTimer = DebounceWait
  /\ rafPending = FALSE
  /\ resizeObserving = TRUE
  /\ resizeQueued = TRUE
  /\ loadMoreObserving = more
  /\ bodyTimes = << >>
  /\ rawEvents = 0
  /\ resizes = 0

\* the grid where ViewSpec is not running
ViewIdle ==
  /\ now = 0
  /\ gridMounted = FALSE
  /\ elementScrollTop = 0
  /\ elementRect = << 0, 0 >>
  /\ gridWidth = 0
  /\ gridHeight = 0
  /\ gridScrollTop = 0
  /\ velocity = Zero
  /\ lastScrollTop = 0
  /\ lastScrollTime = 0
  /\ isScrolling = FALSE
  /\ scrollingTimeout = Never
  /\ inThrottle = FALSE
  /\ lastRan = 0
  /\ lastFunc = Never
  /\ debounceTimer = Never
  /\ rafPending = FALSE
  /\ resizeObserving = FALSE
  /\ resizeQueued = FALSE
  /\ loadMoreObserving = FALSE
  /\ bodyTimes = << >>
  /\ rawEvents = 0
  /\ resizes = 0

\* ------------------------------------------------------------------------
\* useUltraFastSearch and UltraVirtualizationEngine before any call
\* ------------------------------------------------------------------------
\* debounceTimeoutRef when no timer is pending
NoTimeout == [query |-> << >>, due |-> Never]

\* the hook after its first render: the effect has created the worker
SearchInitial(list) ==
  /\ allPhotos = list
  /\ searchQuery = << >>
  /\ searchResults = << >>
  /\ isSearching = FALSE
  /\ searchCached = FALSE
  /\ debounceTimeout = NoTimeout
  /\ searchCache = << >>
  /\ workerInbox = << >>
  /\ workerOutbox = << >>
  /\ searchTime = 0
  /\ scored = << >>
  /\ searchCalls = 0

SearchIdle == SearchInitial(<< >>)

\* the engine after its constructor
EngineIdle ==
  /\ itemCache = << >>
  /\ listeners = << >>
  /\ engineInbox = << >>
  /\ engineOutbox = << >>
  /\ resolved = << >>
  /\ engineCalls = 0

\* ------------------------------------------------------------------------
\* GridSpec: one layout from an empty cache, then visibility queries
\* ------------------------------------------------------------------------
LayoutInputs(lists, widths, columnCounts) ==
  /\ layoutCache = << >>
  /\ photos \in lists
  /\ containerWidth \in widths
  /\ columnCount \in columnCounts
  /\ gap \in Gaps
  /\ gridItems = << >>
  /\ placed = FALSE
  /\ cacheHit = FALSE
  /\ thrown = FALSE
  /\ calls = 0
  /\ prevCall = NoCall
  /\ SelectIdle
  /\ gpc = "input"
  /\ PageInitial(0)
  /\ HookInitial
  /\ SearchIdle
  /\ EngineIdle
  /\ ViewIdle

GridInit == LayoutInputs(PhotoLists, Widths, ColumnCounts)

\* gridItems = calculateMasonryLayout(photos, containerWidth, columnCount, gap)
Layout ==
  /\ gpc = "input"
  /\ LET r == CalculateMasonryLayout(layoutCache, photos, containerWidth,
                                     columnCount, gap)
     IN  /\ gridItems' = r.items
         /\ layoutCache' = r.cache
         /\ placed' = r.placed
         /\ cacheHit' = r.hit
         /\ thrown' = r.thrown
  /\ calls' = calls + 1
  /\ gpc' = "laid"
  /\ UNCHANGED << photos, containerWidth, columnCount, gap, prevCall,
                  selectVars, pageVars, hookVars,
                  viewVars,
                  searchVars, engineVars >>

\* visibleItems = getVisibleItems(gridItems, st, ch, v)
Select ==
  /\ gpc = "laid"
  /\ ~thrown
  /\ \E st \in ScrollTops, ch \in ContainerHeights, v \in Velocities :
       /\ scrollTop' = st
       /\ containerHeight' = ch
       /\ scrollVelocity' = v
       /\ visibleItems' = GetVisibleItems(gridItems, st, ch, v)
  /\ gpc' = "selected"
  /\ UNCHANGED << layoutVars, pageVars, hookVars,
                  viewVars,
                  searchVars, engineVars >>

GridNext == Layout \/ Select

GridSpec == GridInit /\ [][GridNext]_vars

\* GuardSpec: calls with arguments around and below zero
GuardWidths == {-8, 0, 8}
GuardColumnCounts == {-1, 0, 1, 2}

GuardInit == LayoutInputs(ListsUpTo(2), GuardWidths, GuardColumnCounts)

GuardSpec == GuardInit /\ [][GridNext]_vars

\* ScenarioSpec: four photos in two columns
ScenarioPhotos == 4
ScenarioWidths == {32, 800}

ScenarioInit ==
  LayoutInputs([1..ScenarioPhotos -> PhotoIds], ScenarioWidths, {2})

ScenarioSpec == ScenarioInit /\ [][GridNext]_vars

\* ------------------------------------------------------------------------
\* CacheSpec: a run of calculateMasonryLayout calls on the shared layoutCache
\* ------------------------------------------------------------------------
CacheInit ==
  /\ GridIdle
  /\ gpc = "calls"
  /\ PageInitial(0)
  /\ HookInitial
  /\ SearchIdle
  /\ EngineIdle
  /\ ViewIdle

\* gridItems = calculateMasonryLayout(p, w, c, g)
Calculate ==
  /\ gpc = "calls"
  /\ calls < MaxCalls
  /\ \E p \in CacheLists, w \in CacheWidths, c \in CacheColumnCounts,
        g \in Gaps :
       LET r == CalculateMasonryLayout(layoutCache, p, w, c, g)
       IN  /\ photos' = p
           /\ containerWidth' = w
           /\ columnCount' = c
           /\ gap' = g
           /\ gridItems' = r.items
           /\ layoutCache' = r.cache
           /\ placed' = r.placed
           /\ cacheHit' = r.hit
           /\ thrown' = r.thrown
  /\ prevCall' = LatestCall
  /\ calls' = calls + 1
  /\ UNCHANGED << selectVars, gpc, pageVars, hookVars,
                  viewVars,
                  searchVars, engineVars >>

CacheNext == Calculate

CacheSpec == CacheInit /\ [][CacheNext]_vars

\* EvictionSpec: calls on a layoutCache that earlier calls have filled, each
\* with one photo in two columns at a width of its own
FillWidth(k) == 1000 + 2 * k

\* layoutCache after the calls for the widths FillWidth(1..n), n <= 100:
\* each call misses and appends its entry
Filled(n) ==
  SubSeq([k \in 1..n |->
            [key |-> CacheKey(<< 2 >>, FillWidth(k), 2),
             items |-> PlaceAll(<< 2 >>, FillWidth(k), 2, DefaultGap)]],
         1, n)

Fills == {LayoutCacheLimit - 2, LayoutCacheLimit - 1, LayoutCacheLimit}

EvictionInit ==
  /\ layoutCache \in { Filled(n) : n \in Fills }
  /\ photos = << >>
  /\ containerWidth = 0
  /\ columnCount = 0
  /\ gap = 0
  /\ gridItems = << >>
  /\ placed = FALSE
  /\ cacheHit = FALSE
  /\ thrown = FALSE
  /\ calls = 0
  /\ prevCall = NoCall
  /\ SelectIdle
  /\ gpc = "calls"
  /\ PageInitial(0)
  /\ HookInitial
  /\ SearchIdle
  /\ EngineIdle
  /\ ViewIdle

EvictionSpec == EvictionInit /\ [][CacheNext]_vars

\* ------------------------------------------------------------------------
\* PageSpec: HomePage loading the plain listing (app/page.tsx)
\*
\* One run is one mount of HomePage and is shorter than the ttl of apiCache,
\* so no entry expires.  The updates a handler wraps in startTransition are
\* committed together with the handler's other updates.
\* ------------------------------------------------------------------------
SourceTotals == {25, 80, MaxSourcePhotos}

ApiCacheMaxSize == 100

\* the response of the photo source to /curated?page=pageNum&per_page=perPage
CuratedPage(pageNum, perPage, total) ==
  LET first == (pageNum - 1) * perPage + 1
      last == Min(pageNum * perPage, total)
      n == Max(0, last - first + 1)
  IN  [photos |-> SubSeq([k \in 1..n |-> first + k - 1], 1, n),
       page |-> pageNum, per_page |-> perPage, total_results |-> total]

\* `curated_${pageNum}`
CuratedKey(pageNum) == << "curated", pageNum >>

ApiCacheHas(cache, key) == \E i \in 1..Len(cache) : cache[i].key = key

ApiCacheGet(cache, key) ==
  cache[CHOOSE i \in 1..Len(cache) : cache[i].key = key].data

ApiCacheSet(cache, key, data) ==
  LET kept == IF Len(cache) >= ApiCacheMaxSize THEN Tail(cache) ELSE cache
  IN  IF ApiCacheHas(kept, key)
      THEN [i \in 1..Len(kept) |->
              IF kept[i].key = key THEN [key |-> key, data |-> data]
              ELSE kept[i]]
      ELSE Append(kept, [key |-> key, data |-> data])

Remove(s, i) == SubSeq(s, 1, i - 1) \o SubSeq(s, i + 1, Len(s))

\* abortControllerRef.current.abort(): the request the controller serves,
\* if it has not settled, is aborted
AbortCurrent(requests) ==
  [i \in 1..Len(requests) |->
     IF abortControllerRef # 0 /\ requests[i].id = abortControllerRef
     THEN [requests[i] EXCEPT !.aborted = TRUE]
     ELSE requests[i]]

Request(kind, pageNum, perPage, append) ==
  [id |-> issued + 1, kind |-> kind, page |-> pageNum, perPage |-> perPage,
   append |-> append, aborted |-> FALSE]

\* the preload effect runs, and starts its timer, after the first render and
\* whenever one of its dependencies [loading, hasMore, page] changed
TimerAfter(newLoading, newHasMore, newPage) ==
  IF \/ ~mounted
     \/ << newLoading, newHasMore, newPage >> # << loading, hasMore, page >>
  THEN "armed"
  ELSE preloadTimer

\* an aborted fetch rejects at once, before any other event is handled
AbortPending == \E i \in 1..Len(inflight) : inflight[i].aborted

\* setHasMore(response.photos.length === 40), the mutant first
HasMoreAlways(response) == TRUE

HasMoreAfter(response) == Len(response.photos) = PageSize

\* setPhotos, setHasMore, setPage and the finally block of loadCuratedPhotos
\* and loadMore
Commit(response, pageNum, append) ==
  /\ homePhotos' = (IF append THEN homePhotos \o response.photos
                    ELSE response.photos)
  /\ hasMore' = HasMoreAfter(response)
  /\ page' = pageNum
  /\ loading' = FALSE
  /\ abortControllerRef' = 0
  /\ preloadTimer' = TimerAfter(FALSE, HasMoreAfter(response), pageNum)

\* the catch and finally blocks of loadCuratedPhotos and loadMore
Rejected(aborted, message) ==
  /\ error' = (IF aborted THEN error ELSE message)
  /\ lastEvent' = (IF aborted THEN "aborted" ELSE "failed")
  /\ loading' = FALSE
  /\ abortControllerRef' = 0
  /\ preloadTimer' = TimerAfter(FALSE, hasMore, page)
  /\ UNCHANGED << homePhotos, hasMore, page, apiCache >>

\* loadCuratedPhotos(pageNum, append) up to its await
LoadCuratedPhotos(pageNum, append) ==
  LET key == CuratedKey(pageNum)
  IN  /\ error' = "null"
      /\ IF ApiCacheHas(apiCache, key)
         THEN /\ Commit(ApiCacheGet(apiCache, key), pageNum, append)
              /\ inflight' = AbortCurrent(inflight)
              /\ UNCHANGED << apiCache, issued >>
         ELSE /\ issued < MaxRequests
              /\ loading' = TRUE
              /\ abortControllerRef' = issued + 1
              /\ inflight' = Append(AbortCurrent(inflight),
                                    Request("load", pageNum, PageSize, append))
              /\ issued' = issued + 1
              /\ preloadTimer' = TimerAfter(TRUE, hasMore, page)
              /\ UNCHANGED << homePhotos, hasMore, page, apiCache >>

PageInit ==
  /\ GridIdle
  /\ gpc = "page"
  /\ \E total \in SourceTotals : PageInitial(total)
  /\ HookInitial
  /\ SearchIdle
  /\ EngineIdle
  /\ ViewIdle

\* the effects of the first render: the preload effect starts its timer, the
\* load effect calls loadCuratedPhotos()
MountEffects ==
  /\ gpc = "page"
  /\ ~mounted
  /\ mounted' = TRUE
  /\ LoadCuratedPhotos(1, FALSE)
  /\ lastEvent' = "mount"
  /\ UNCHANGED << isSearchActive, sourceTotal, gridVars, hookVars,
                  viewVars,
                  searchVars, engineVars >>

\* the effects of the first render under React.StrictMode: every effect is set
\* up, cleaned up and set up again before anything else runs.  The cleanup of
\* the load effect aborts the first request and keeps the controller; the
\* second loadCuratedPhotos() aborts it again and replaces it.
MountEffectsStrict ==
  /\ gpc = "page"
  /\ ~mounted
  /\ issued + 2 <= MaxRequests
  /\ mounted' = TRUE
  /\ error' = "null"
  /\ loading' = TRUE
  /\ abortControllerRef' = issued + 2
  /\ inflight' = << [Request("load", 1, PageSize, FALSE)
                       EXCEPT !.aborted = TRUE],
                    [Request("load", 1, PageSize, FALSE)
                       EXCEPT !.id = issued + 2] >>
  /\ issued' = issued + 2
  /\ preloadTimer' = "armed"
  /\ lastEvent' = "mount"
  /\ UNCHANGED << homePhotos, hasMore, page, apiCache, isSearchActive,
                  sourceTotal, gridVars, hookVars,
                  viewVars,
                  searchVars, engineVars >>

\* the fetch of loadCuratedPhotos settles and the function runs to its end
LoadSettle ==
  /\ gpc = "page"
  /\ \E i \in 1..Len(inflight) :
       LET r == inflight[i]
       IN  /\ r.kind = "load"
           /\ r.aborted \/ ~AbortPending
           /\ inflight' = Remove(inflight, i)
           /\ \/ /\ ~r.aborted
                 /\ lastEvent' = "loaded"
                 /\ LET response == CuratedPage(r.page, r.perPage, sourceTotal)
                    IN  /\ apiCache' = ApiCacheSet(apiCache, CuratedKey(r.page),
                                                   response)
                        /\ Commit(response, r.page, r.append)
                 /\ UNCHANGED error
              \/ Rejected(r.aborted, "Failed to load photos")
  /\ UNCHANGED << isSearchActive, issued, sourceTotal, mounted, gridVars,
                  hookVars, viewVars,
                  searchVars, engineVars >>

\* the observer of the grid's sentinel exists and its callback calls onLoadMore
ObserverCalls == (hasMore /\ ~isSearchActive) /\ ~loading

\* the guard of loadMore lets the call through
LoadMoreProceeds == ~(loading \/ ~hasMore \/ isSearchActive)

\* the sentinel of the rendered grid intersects: where the observer exists and
\* its test passes it calls onLoadMore, which is loadMore, up to its await
LoadMore ==
  /\ gpc = "page"
  /\ mounted
  /\ ~AbortPending
  /\ Len(homePhotos) > 0
  /\ IF ObserverCalls /\ LoadMoreProceeds
     THEN LET nextPage == page + 1
              key == CuratedKey(nextPage)
          IN  IF ApiCacheHas(apiCache, key)
              THEN /\ Commit(ApiCacheGet(apiCache, key), nextPage, TRUE)
                   /\ UNCHANGED << inflight, issued, apiCache, error >>
              ELSE /\ issued < MaxRequests
                   /\ loading' = TRUE
                   /\ abortControllerRef' = issued + 1
                   /\ inflight' = Append(AbortCurrent(inflight),
                                     Request("more", nextPage, PageSize, TRUE))
                   /\ issued' = issued + 1
                   /\ preloadTimer' = TimerAfter(TRUE, hasMore, page)
                   /\ UNCHANGED << homePhotos, hasMore, page, apiCache,
                                   error >>
     ELSE UNCHANGED << homePhotos, loading, error, page, hasMore,
                       abortControllerRef, apiCache, preloadTimer, inflight,
                       issued >>
  /\ lastEvent' = "sentinel"
  /\ UNCHANGED << isSearchActive, sourceTotal, mounted, gridVars, hookVars,
                  viewVars,
                  searchVars, engineVars >>

\* the fetch of loadMore settles and the function runs to its end
MoreSettle ==
  /\ gpc = "page"
  /\ \E i \in 1..Len(inflight) :
       LET r == inflight[i]
       IN  /\ r.kind = "more"
           /\ r.aborted \/ ~AbortPending
           /\ inflight' = Remove(inflight, i)
           /\ \/ /\ ~r.aborted
                 /\ lastEvent' = "loaded"
                 /\ LET response == CuratedPage(r.page, r.perPage, sourceTotal)
                    IN  /\ apiCache' = ApiCacheSet(apiCache, CuratedKey(r.page),
                                                   response)
                        /\ Commit(response, r.page, TRUE)
                 /\ UNCHANGED error
              \/ Rejected(r.aborted, "Failed to load more photos")
  /\ UNCHANGED << isSearchActive, issued, sourceTotal, mounted, gridVars,
                  hookVars, viewVars,
                  searchVars, engineVars >>

\* the 2 s timer of the preload effect fires: preloadNextPage
PreloadNextPage ==
  /\ gpc = "page"
  /\ preloadTimer = "armed"
  /\ ~AbortPending
  /\ preloadTimer' = "idle"
  /\ IF ~loading /\ hasMore /\ ~ApiCacheHas(apiCache, CuratedKey(page + 1))
     THEN /\ issued < MaxRequests
          /\ inflight' = Append(inflight,
                                Request("preload", page + 1, PreloadSize, FALSE))
          /\ issued' = issued + 1
     ELSE UNCHANGED << inflight, issued >>
  /\ lastEvent' = "timer"
  /\ UNCHANGED << homePhotos, loading, error, page, hasMore,
                  abortControllerRef, apiCache, isSearchActive, sourceTotal,
                  mounted, gridVars, hookVars,
                  viewVars,
                  searchVars, engineVars >>

\* the fetch of the preload settles: .then stores the response, .catch is empty
PreloadSettle ==
  /\ gpc = "page"
  /\ \E i \in 1..Len(inflight) :
       LET r == inflight[i]
       IN  /\ r.kind = "preload"
           /\ ~AbortPending
           /\ inflight' = Remove(inflight, i)
           /\ \/ apiCache' = ApiCacheSet(apiCache, CuratedKey(r.page),
                               CuratedPage(r.page, r.perPage, sourceTotal))
              \/ UNCHANGED apiCache
  /\ lastEvent' = "preload"
  /\ UNCHANGED << homePhotos, loading, error, page, hasMore,
                  abortControllerRef, isSearchActive, preloadTimer, issued,
                  sourceTotal, mounted, gridVars, hookVars,
                  viewVars,
                  searchVars, engineVars >>

\* the search bar changes the query: isSearchActive follows its trimmed length
UpdateSearchQuery ==
  /\ gpc = "page"
  /\ mounted
  /\ ~AbortPending
  /\ isSearchActive' = ~isSearchActive
  /\ lastEvent' = "search"
  /\ UNCHANGED << homePhotos, loading, error, page, hasMore,
                  abortControllerRef, apiCache, preloadTimer, inflight, issued,
                  sourceTotal, mounted, gridVars, hookVars,
                  viewVars,
                  searchVars, engineVars >>

PageNext ==
  \/ MountEffects
  \/ MountEffectsStrict
  \/ LoadSettle
  \/ LoadMore
  \/ MoreSettle
  \/ PreloadNextPage
  \/ PreloadSettle
  \/ UpdateSearchQuery

PageSpec == PageInit /\ [][PageNext]_vars

\* ------------------------------------------------------------------------
\* PhotosSpec: usePhotos (hooks/use-photos)
\*
\* Every loadPhotos call is made from the closure of the latest render.
\* ------------------------------------------------------------------------
Undefined == "undefined"     \* loadPhotos() without an argument
Queries == {Undefined, "", "nature", "city"}

\* a query that is neither undefined nor the empty string is truthy
Truthy(query) == query \notin {Undefined, ""}

\* undefined, and NaN, where a number is expected
Missing == -1

\* query || ""
QueryOrEmpty(query) == IF Truthy(query) THEN query ELSE ""

\* number of photos the source holds for a query; "" is the curated listing
TotalResults(query) ==
  CASE query = "nature" -> 15
    [] query = "city" -> 8
    [] OTHER -> 25

\* the response of searchPhotos(query, pageNum, perPage) for a truthy query,
\* of fetchCuratedPhotos(pageNum, perPage) otherwise
SourcePage(query, pageNum, perPage) ==
  LET q == QueryOrEmpty(query)
      total == TotalResults(q)
      first == (pageNum - 1) * perPage + 1
      last == Min(pageNum * perPage, total)
      n == Max(0, last - first + 1)
  IN  [photos |-> SubSeq([k \in 1..n |-> << q, first + k - 1 >>], 1, n),
       page |-> pageNum, per_page |-> perPage, total_results |-> total]

PhotosInit ==
  /\ GridIdle
  /\ gpc = "hook"
  /\ PageInitial(0)
  /\ HookInitial
  /\ SearchIdle
  /\ EngineIdle
  /\ ViewIdle

\* a loadPhotos(query) call waiting for its response: page is the page of the
\* closure, before the photos held when it was made, further whether it asks
\* for a further page of the listing on display, alone whether no other call
\* has been waiting beside it
Call(query) ==
  [query |-> query, page |-> hookPage, before |-> hookPhotos,
   further |-> (QueryOrEmpty(query) = currentQuery /\ hookPage > 1
                  /\ Len(hookPhotos) > 0),
   alone |-> (hookInflight = << >>), id |-> hookCalls + 1]

\* the request that loadPhotos(query) sends: searchPhotos(query, page, 10) or
\* fetchCuratedPhotos(page, 10), with how it ended
Sent(query) ==
  [query |-> query, page |-> hookPage, alone |-> (hookInflight = << >>),
   outcome |-> "waiting"]

Overtaken(waiting) ==
  [i \in 1..Len(waiting) |-> [waiting[i] EXCEPT !.alone = FALSE]]

\* loadPhotos(query) up to its await; page is the page of the closure
LoadPhotos ==
  /\ gpc = "hook"
  /\ hookCalls < MaxHookCalls
  /\ \E query \in Queries :
       /\ hookLoading' = TRUE
       /\ hookError' = "null"
       /\ IF query # currentQuery
          THEN /\ hookPhotos' = << >>
               /\ hookPage' = 1
               /\ currentQuery' = QueryOrEmpty(query)
          ELSE UNCHANGED << hookPhotos, hookPage, currentQuery >>
       /\ hookInflight' = Append(Overtaken(hookInflight),
                                 Call(query))
       /\ superseded' = (superseded \/
            \E i \in 1..Len(hookInflight) :
               QueryOrEmpty(hookInflight[i].query) # QueryOrEmpty(query))
       /\ hookRequests' = Append(hookRequests, Sent(query))
  /\ hookCalls' = hookCalls + 1
  /\ UNCHANGED << hookHasMore, gridVars, pageVars,
                  viewVars,
                  searchVars, engineVars >>

\* a response that carries photos only: page, per_page and total_results
\* are undefined
Partial(response) ==
  [photos |-> response.photos, page |-> Missing, per_page |-> Missing,
   total_results |-> Missing]

\* a * b of two numbers or undefined: NaN (Missing) when one is undefined
JsTimes(a, b) == IF a = Missing \/ b = Missing THEN Missing ELSE a * b

\* a < b of two numbers, NaN or undefined: false unless both are numbers
JsLess(a, b) == IF a = Missing \/ b = Missing THEN FALSE ELSE a < b

\* the response of waiting call i arrives, complete or partial, and loadPhotos
\* runs to its end
PhotosResolveCall(i, partial) ==
  /\ gpc = "hook"
  /\ i \in 1..Len(hookInflight)
  /\ LET call == hookInflight[i]
         full == SourcePage(call.query, call.page, HookPageSize)
         response == IF partial THEN Partial(full) ELSE full
     IN  /\ hookPhotos' = (IF call.page = 1 THEN response.photos
                           ELSE hookPhotos \o response.photos)
         /\ hookHasMore' = JsLess(JsTimes(response.page, response.per_page),
                                  response.total_results)
         /\ hookInflight' = Remove(hookInflight, i)
         /\ hookRequests' =
              [hookRequests EXCEPT ![call.id].outcome =
                 IF partial THEN "partial" ELSE "complete"]
  /\ hookPage' = hookPage + 1
  /\ hookLoading' = FALSE
  /\ UNCHANGED << hookError, currentQuery, hookCalls, superseded, gridVars,
                  pageVars, viewVars,
                  searchVars, engineVars >>

PhotosResolve ==
  \E i \in 1..Len(hookInflight), partial \in BOOLEAN :
     PhotosResolveCall(i, partial)

\* the request of waiting call i fails: catch and finally
PhotosRejectCall(i) ==
  /\ gpc = "hook"
  /\ i \in 1..Len(hookInflight)
  /\ hookRequests' =
       [hookRequests EXCEPT ![hookInflight[i].id].outcome = "failed"]
  /\ hookInflight' = Remove(hookInflight, i)
  /\ hookError' = "Failed to fetch photos"
  /\ hookLoading' = FALSE
  /\ UNCHANGED << hookPhotos, hookHasMore, hookPage, currentQuery, hookCalls,
                  superseded, gridVars, pageVars,
                  viewVars,
                  searchVars, engineVars >>

PhotosReject == \E i \in 1..Len(hookInflight) : PhotosRejectCall(i)

PhotosNext == LoadPhotos \/ PhotosResolve \/ PhotosReject

PhotosSpec == PhotosInit /\ [][PhotosNext]_vars

\* ------------------------------------------------------------------------
\* ViewSpec: actions
\* ------------------------------------------------------------------------
ViewInit ==
  /\ GridIdle
  /\ gpc = "view"
  /\ PageInitial(0)
  /\ HookInitial
  /\ SearchIdle
  /\ EngineIdle
  /\ \E rect \in Rects, more \in BOOLEAN : ViewInitial(rect, more)

\* the body of handleScroll; the setters of an unmounted component do nothing
ScrollBody(currentScrollTop) ==
  LET timeDelta == now - lastScrollTime
  IN  /\ velocity' = (IF timeDelta > 0 /\ gridMounted
                      THEN Smoothed(velocity,
                                    currentScrollTop - lastScrollTop,
                                    timeDelta)
                      ELSE velocity)
      /\ lastScrollTop' = currentScrollTop
      /\ lastScrollTime' = now
      /\ gridScrollTop' = (IF gridMounted THEN currentScrollTop
                           ELSE gridScrollTop)
      /\ isScrolling' = TRUE
      /\ scrollingTimeout' = now + QuietPeriod
      /\ bodyTimes' = Append(bodyTimes, now)

ScrollBodySkipped ==
  UNCHANGED << velocity, lastScrollTop, lastScrollTime, gridScrollTop,
               isScrolling, scrollingTimeout, bodyTimes >>

\* time passes, up to the next due timer; a queued observer callback and a
\* requested animation frame run first.  After MaxTime nothing but timers is
\* left to happen and time passes to the next due timer at once.
Tick ==
  /\ gpc = "view"
  /\ ~(resizeQueued /\ resizeObserving) /\ ~rafPending
  /\ Timers # {} => now < NextDue
  /\ IF now < MaxTime
     THEN \E d \in TickSteps :
            now' = (IF Timers = {} THEN Min(now + d, MaxTime)
                    ELSE Min(now + d, NextDue))
     ELSE Timers # {} /\ now' = NextDue
  /\ UNCHANGED << gridMounted, elementScrollTop, elementRect, gridWidth,
                  gridHeight, gridScrollTop, velocity, lastScrollTop,
                  lastScrollTime, isScrolling, scrollingTimeout, inThrottle,
                  lastRan, lastFunc, debounceTimer, rafPending,
                  resizeObserving, resizeQueued, loadMoreObserving, bodyTimes,
                  rawEvents, resizes, gridVars, pageVars, hookVars,
                  searchVars, engineVars >>

\* a raw scroll event reaches the throttled handleScroll
RawScroll ==
  /\ gpc = "view"
  /\ gridMounted
  /\ rawEvents < MaxScrolls /\ now <= MaxTime
  /\ rawEvents' = rawEvents + 1
  /\ \E position \in ScrollPositions \ {elementScrollTop} :
       /\ elementScrollTop' = position
       /\ IF ~inThrottle
          THEN /\ ScrollBody(position)
               /\ lastRan' = now
               /\ inThrottle' = InThrottleAfterRun
               /\ UNCHANGED lastFunc
          ELSE /\ lastFunc' = Max(now, now + (ThrottleLimit - (now - lastRan)))
               /\ ScrollBodySkipped
               /\ UNCHANGED << lastRan, inThrottle >>
  /\ UNCHANGED << now, gridMounted, elementRect, gridWidth, gridHeight,
                  debounceTimer, rafPending, resizeObserving, resizeQueued,
                  loadMoreObserving, resizes, gridVars, pageVars, hookVars,
                  searchVars, engineVars >>

\* the trailing timer of throttle fires
ThrottleFire ==
  /\ gpc = "view"
  /\ lastFunc # Never /\ now >= lastFunc
  /\ lastFunc' = Never
  /\ IF now - lastRan >= ThrottleLimit
     THEN ScrollBody(elementScrollTop) /\ lastRan' = now
     ELSE ScrollBodySkipped /\ UNCHANGED lastRan
  /\ UNCHANGED << now, gridMounted, elementScrollTop, elementRect, gridWidth,
                  gridHeight, inThrottle, debounceTimer, rafPending,
                  resizeObserving, resizeQueued, loadMoreObserving, rawEvents,
                  resizes, gridVars, pageVars, hookVars,
                  searchVars, engineVars >>

\* the quiet-period timer fires
QuietFire ==
  /\ gpc = "view"
  /\ scrollingTimeout # Never /\ now >= scrollingTimeout
  /\ scrollingTimeout' = Never
  /\ isScrolling' = FALSE
  /\ velocity' = (IF gridMounted THEN Zero ELSE velocity)
  /\ UNCHANGED << now, gridMounted, elementScrollTop, elementRect, gridWidth,
                  gridHeight, gridScrollTop, lastScrollTop, lastScrollTime,
                  inThrottle, lastRan, lastFunc, debounceTimer, rafPending,
                  resizeObserving, resizeQueued, loadMoreObserving, bodyTimes,
                  rawEvents, resizes, gridVars, pageVars, hookVars,
                  searchVars, engineVars >>

\* the cleanup of the resize effect
ResizeCleanup ==
  /\ resizeObserving' = FALSE
  /\ rafPending' = FALSE
  /\ scrollingTimeout' = Never

\* the container changes its size; a connected ResizeObserver queues a callback
ElementResize ==
  /\ gpc = "view"
  /\ gridMounted
  /\ resizes < MaxResizes /\ now <= MaxTime
  /\ resizes' = resizes + 1
  /\ \E rect \in Rects \ {elementRect} : elementRect' = rect
  /\ resizeQueued' = (resizeQueued \/ resizeObserving)
  /\ UNCHANGED << now, gridMounted, elementScrollTop, gridWidth, gridHeight,
                  gridScrollTop, velocity, lastScrollTop, lastScrollTime,
                  isScrolling, scrollingTimeout, inThrottle, lastRan, lastFunc,
                  debounceTimer, rafPending, resizeObserving,
                  loadMoreObserving, bodyTimes, rawEvents, gridVars, pageVars,
                  hookVars,
                  searchVars, engineVars >>

\* the callback of the ResizeObserver: cancel the frame requested before,
\* request one for handleResize
ResizeObserved ==
  /\ gpc = "view"
  /\ resizeQueued /\ resizeObserving
  /\ resizeQueued' = FALSE
  /\ rafPending' = TRUE
  /\ UNCHANGED << now, gridMounted, elementScrollTop, elementRect, gridWidth,
                  gridHeight, gridScrollTop, velocity, lastScrollTop,
                  lastScrollTime, isScrolling, scrollingTimeout, inThrottle,
                  lastRan, lastFunc, debounceTimer, resizeObserving,
                  loadMoreObserving, bodyTimes, rawEvents, resizes, gridVars,
                  pageVars, hookVars,
                  searchVars, engineVars >>

\* the animation frame runs the debounced handleResize: its timer restarts
AnimationFrame ==
  /\ gpc = "view"
  /\ rafPending
  /\ rafPending' = FALSE
  /\ debounceTimer' = now + DebounceWait
  /\ UNCHANGED << now, gridMounted, elementScrollTop, elementRect, gridWidth,
                  gridHeight, gridScrollTop, velocity, lastScrollTop,
                  lastScrollTime, isScrolling, scrollingTimeout, inThrottle,
                  lastRan, lastFunc, resizeObserving, resizeQueued,
                  loadMoreObserving, bodyTimes, rawEvents, resizes, gridVars,
                  pageVars, hookVars,
                  searchVars, engineVars >>

\* the timer of debounce fires: the body of handleResize.  A commit of new
\* dimensions renders a new handleResize, so the resize effect is cleaned up
\* and set up again: a new observer on the container, handleResize() called.
DebounceFire ==
  /\ gpc = "view"
  /\ debounceTimer # Never /\ now >= debounceTimer
  /\ IF gridMounted /\ elementRect # << gridWidth, gridHeight >>
     THEN /\ gridWidth' = elementRect[1]
          /\ gridHeight' = elementRect[2]
          /\ rafPending' = FALSE
          /\ scrollingTimeout' = Never
          /\ resizeObserving' = TRUE
          /\ resizeQueued' = TRUE
          /\ debounceTimer' = now + DebounceWait
     ELSE /\ debounceTimer' = Never
          /\ UNCHANGED << gridWidth, gridHeight, rafPending, scrollingTimeout,
                          resizeObserving, resizeQueued >>
  /\ UNCHANGED << now, gridMounted, elementScrollTop, elementRect,
                  gridScrollTop, velocity, lastScrollTop, lastScrollTime,
                  isScrolling, inThrottle, lastRan, lastFunc,
                  loadMoreObserving, bodyTimes, rawEvents, resizes, gridVars,
                  pageVars, hookVars,
                  searchVars, engineVars >>

\* the grid is unmounted: the cleanups of the resize effect and of the
\* load-more effect run
Unmount ==
  /\ gpc = "view"
  /\ gridMounted /\ now <= MaxTime
  /\ gridMounted' = FALSE
  /\ ResizeCleanup
  /\ resizeQueued' = FALSE
  /\ loadMoreObserving' = FALSE
  /\ UNCHANGED << now, elementScrollTop, elementRect, gridWidth, gridHeight,
                  gridScrollTop, velocity, lastScrollTop, lastScrollTime,
                  isScrolling, inThrottle, lastRan, lastFunc, debounceTimer,
                  bodyTimes, rawEvents, resizes, gridVars, pageVars,
                  hookVars,
                  searchVars, engineVars >>

ViewNext ==
  \/ Tick
  \/ RawScroll
  \/ ThrottleFire
  \/ QuietFire
  \/ ElementResize
  \/ ResizeObserved
  \/ AnimationFrame
  \/ DebounceFire
  \/ Unmount

ViewSpec == ViewInit /\ [][ViewNext]_vars

\* timers fire when due, queued callbacks and frames run, time passes
ViewFairness ==
  /\ WF_vars(Tick)
  /\ WF_vars(ThrottleFire)
  /\ WF_vars(QuietFire)
  /\ WF_vars(ResizeObserved)
  /\ WF_vars(AnimationFrame)
  /\ WF_vars(DebounceFire)

FairViewSpec == ViewSpec /\ ViewFairness

\* ------------------------------------------------------------------------
\* SearchSpec: useUltraFastSearch and its inline worker
\* (hooks/use-ultra-fast-search)
\* ------------------------------------------------------------------------
\* Strings are sequences of one-character strings.
CACHE_EXPIRY == 5 * 60 * 1000

\* the fields of PexelsPhoto the search reads; alt of photo 2 is empty
SearchCatalogue ==
  [id \in 1..3 |->
     IF id = 1 THEN [alt |-> << "a", "b" >>, photographer |-> << "c" >>]
     ELSE IF id = 2 THEN [alt |-> << >>, photographer |-> << "A", " ", "b" >>]
     ELSE [alt |-> << "c", "c" >>, photographer |-> << "B", "c" >>]]

SearchLists == { << 1, 2, 3 >>, << 3, 1 >> }

\* the texts typed into the search box
SearchQueries ==
  { << >>, << " " >>,
    << "a", "b" >>, << "A", "b", " " >>, << "b" >>, << "a", " ", "b" >>,
    << "c", "c", " ", "a", "b" >>, << "b", "a" >> }

SearchTickSteps == {CACHE_EXPIRY}

\* String.prototype.toLowerCase
ToLowerCase(s) ==
  [i \in 1..Len(s) |-> IF s[i] = "A" THEN "a"
                       ELSE IF s[i] = "B" THEN "b" ELSE s[i]]

\* String.prototype.trim
Trim(s) ==
  LET inked == { i \in 1..Len(s) : s[i] # " " }
  IN  IF inked = {} THEN << >>
      ELSE SubSeq(s, CHOOSE i \in inked : \A j \in inked : i <= j,
                     CHOOSE i \in inked : \A j \in inked : j <= i)

\* text.includes(part)
Includes(text, part) ==
  \E i \in 0..(Len(text) - Len(part)) :
     SubSeq(text, i + 1, i + Len(part)) = part

\* s.split(' '): the pieces between the spaces, empty pieces included
Split(s) ==
  LET cuts == {0} \cup { i \in 1..Len(s) : s[i] = " " } \cup {Len(s) + 1}
      Nth(k) == CHOOSE c \in cuts : Cardinality({ x \in cuts : x < c }) = k - 1
      n == Cardinality(cuts) - 1
  IN  SubSeq([k \in 1..n |-> SubSeq(s, Nth(k) + 1, Nth(k + 1) - 1)], 1, n)

LongerThanOne(term) == Len(term) > 1

\* query.toLowerCase().split(' ').filter(term => term.length > 1)
SearchTerms(query) == SelectSeq(Split(ToLowerCase(query)), LongerThanOne)

\* `${photo.alt || ''} ${photo.photographer || ''}`.toLowerCase()
SearchableText(id) ==
  ToLowerCase(SearchCatalogue[id].alt \o << " " >> \o
              SearchCatalogue[id].photographer)

\* the score of one photo: 100 for the full query, 50 for every search term
Score(id, query) ==
  LET terms == SearchTerms(query)
  IN  (IF Includes(SearchableText(id), ToLowerCase(query)) THEN 100 ELSE 0)
      + 50 * Cardinality({ k \in 1..Len(terms) :
                             Includes(SearchableText(id), terms[k]) })

\* fuzzySearch(photos, query): filter(score > 0), then the stable sort by
\* descending score
FuzzySearch(list, query) ==
  IF Len(SearchTerms(query)) = 0 THEN list
  ELSE LET kept == { i \in 1..Len(list) : Score(list[i], query) > 0 }
           Rank(i) == 1 + Cardinality({ j \in kept :
                            \/ Score(list[j], query) > Score(list[i], query)
                            \/ (Score(list[j], query) = Score(list[i], query)
                                  /\ j < i) })
           n == Cardinality(kept)
       IN  SubSeq([k \in 1..n |-> list[CHOOSE i \in kept : Rank(i) = k]], 1, n)

\* searchCache.get(query) exists
SearchCacheHas(cache, query) ==
  \E i \in 1..Len(cache) : cache[i].query = query

SearchCacheGet(cache, query) ==
  cache[CHOOSE i \in 1..Len(cache) : cache[i].query = query]

\* searchCache.set(query, { results, timestamp })
SearchCacheSet(cache, query, results, timestamp) ==
  LET entry == [query |-> query, results |-> results,
                timestamp |-> timestamp]
  IN  IF SearchCacheHas(cache, query)
        THEN [i \in 1..Len(cache) |->
                IF cache[i].query = query THEN entry ELSE cache[i]]
      ELSE Append(cache, entry)

\* /^[a-zA-Z]+$/.test(query)
AllLetters(query) ==
  /\ Len(query) > 0
  /\ \A i \in 1..Len(query) : query[i] # " "

\* debounceDelay of performSearch
DebounceDelay(query) ==
  IF Len(query) <= 3 \/ AllLetters(query) THEN 50 ELSE 150

\* isSearchActive without the trim
IsSearchActiveUntrimmed == Len(searchQuery) > 0

\* isSearchActive: searchQuery.trim().length > 0
IsSearchActive == Len(Trim(searchQuery)) > 0

\* displayedPhotos of HomePage: isSearchActive ? searchResults : photos
DisplayedPhotos == IF IsSearchActive THEN searchResults ELSE allPhotos

SearchInit ==
  /\ GridIdle
  /\ gpc = "search"
  /\ PageInitial(0)
  /\ HookInitial
  /\ ViewIdle
  /\ EngineIdle
  /\ \E list \in SearchLists : SearchInitial(list)

\* the worker effect after a render with a new searchQuery: the cleanup
\* terminates the worker, the effect creates a new one
WorkerEffect(changed) ==
  IF changed
    THEN /\ searchCache' = << >>
         /\ workerInbox' = << >>
         /\ workerOutbox' = << >>
  ELSE UNCHANGED << searchCache, workerInbox, workerOutbox >>

\* updateSearchQuery(query): setSearchQuery, performSearch up to its timer
HookUpdateSearchQuery ==
  /\ gpc = "search"
  /\ searchCalls < MaxSearchCalls
  /\ searchTime <= MaxSearchTime
  /\ \E query \in SearchQueries :
       /\ searchQuery' = query
       /\ WorkerEffect(query # searchQuery)
       /\ debounceTimeout' = [query |-> query,
                              due |-> searchTime + DebounceDelay(query)]
  /\ searchCalls' = searchCalls + 1
  /\ UNCHANGED << allPhotos, searchResults, isSearching, searchCached,
                  searchTime, scored, gridVars, pageVars, hookVars, viewVars,
                  engineVars >>

\* clearSearch()
ClearSearch ==
  /\ gpc = "search"
  /\ searchCalls < MaxSearchCalls
  /\ searchTime <= MaxSearchTime
  /\ searchQuery' = << >>
  /\ searchResults' = << >>
  /\ isSearching' = FALSE
  /\ searchCached' = FALSE
  /\ debounceTimeout' = NoTimeout
  /\ WorkerEffect(searchQuery # << >>)
  /\ searchCalls' = searchCalls + 1
  /\ UNCHANGED << allPhotos, searchTime, scored, gridVars, pageVars, hookVars,
                  viewVars, engineVars >>

\* the timer of performSearch fires
SearchTimeout ==
  /\ gpc = "search"
  /\ debounceTimeout.due = searchTime
  /\ IF Len(Trim(debounceTimeout.query)) > 0
       THEN /\ isSearching' = TRUE
            /\ workerInbox' = Append(workerInbox,
                                [query |-> Trim(debounceTimeout.query),
                                 photos |-> allPhotos])
            /\ UNCHANGED << searchResults, searchCached >>
     ELSE /\ searchResults' = << >>
          /\ searchCached' = FALSE
          /\ UNCHANGED << isSearching, workerInbox >>
  /\ debounceTimeout' = NoTimeout
  /\ UNCHANGED << allPhotos, searchQuery, searchCache, workerOutbox,
                  searchTime, scored, searchCalls, gridVars, pageVars,
                  hookVars, viewVars, engineVars >>

\* self.onmessage of the worker for the oldest SEARCH message
WorkerSearch ==
  /\ gpc = "search"
  /\ workerInbox # << >>
  /\ LET message == Head(workerInbox)
         normalizedQuery == ToLowerCase(Trim(message.query))
     IN  IF /\ SearchCacheHas(searchCache, normalizedQuery)
            /\ searchTime - SearchCacheGet(searchCache, normalizedQuery).timestamp
                 < CACHE_EXPIRY
           THEN /\ workerOutbox' = Append(workerOutbox,
                     [type |-> "CACHE_HIT", query |-> normalizedQuery,
                      results |-> SearchCacheGet(searchCache,
                                                 normalizedQuery).results,
                      cached |-> TRUE])
                /\ UNCHANGED << searchCache, scored >>
         ELSE LET results == FuzzySearch(message.photos, normalizedQuery)
              IN  /\ searchCache' = SearchCacheSet(searchCache, normalizedQuery,
                                                   results, searchTime)
                  /\ scored' = Append(scored, [query |-> normalizedQuery,
                                               time |-> searchTime])
                  /\ workerOutbox' = Append(workerOutbox,
                       [type |-> "SEARCH_RESULT", query |-> normalizedQuery,
                        results |-> results, cached |-> FALSE])
  /\ workerInbox' = Tail(workerInbox)
  /\ UNCHANGED << allPhotos, searchQuery, searchResults, isSearching,
                  searchCached, debounceTimeout, searchTime, searchCalls,
                  gridVars, pageVars, hookVars, viewVars, engineVars >>

\* workerRef.current.onmessage for the oldest message of the worker
WorkerMessage ==
  /\ gpc = "search"
  /\ workerOutbox # << >>
  /\ LET message == Head(workerOutbox)
     IN  /\ isSearching' = FALSE
         /\ searchCached' = message.cached
         /\ searchResults' =
              (IF message.query = ToLowerCase(Trim(searchQuery))
                 THEN message.results ELSE searchResults)
  /\ workerOutbox' = Tail(workerOutbox)
  /\ UNCHANGED << allPhotos, searchQuery, debounceTimeout, searchCache,
                  workerInbox, searchTime, scored, searchCalls, gridVars,
                  pageVars, hookVars, viewVars, engineVars >>

\* time passes: up to the pending timer, or by a step when nothing is pending
SearchTick ==
  /\ gpc = "search"
  /\ IF debounceTimeout.due # Never
       THEN /\ debounceTimeout.due > searchTime
            /\ searchTime' = debounceTimeout.due
     ELSE /\ workerInbox = << >>
          /\ workerOutbox = << >>
          /\ searchTime <= MaxSearchTime
          /\ \E step \in SearchTickSteps : searchTime' = searchTime + step
  /\ UNCHANGED << allPhotos, searchQuery, searchResults, isSearching,
                  searchCached, debounceTimeout, searchCache, workerInbox,
                  workerOutbox, scored, searchCalls, gridVars, pageVars,
                  hookVars, viewVars, engineVars >>

SearchNext ==
  \/ HookUpdateSearchQuery
  \/ ClearSearch
  \/ SearchTimeout
  \/ WorkerSearch
  \/ WorkerMessage
  \/ SearchTick

SearchSpec == SearchInit /\ [][SearchNext]_vars

\* ------------------------------------------------------------------------
\* Properties of the search (SearchSpec)
\* ------------------------------------------------------------------------
\* the photo's text contains the full query or a query token longer than one
\* character
MatchesQuery(id, query) ==
  \/ Includes(SearchableText(id), query)
  \/ \E k \in 1..Len(Split(query)) :
        /\ Len(Split(query)[k]) > 1
        /\ Includes(SearchableText(id), Split(query)[k])

\* C21: for every non-blank query, every photo of the result the worker
\* returns has a positive score: its lowercased alt and photographer text
\* contains the full query or a query token longer than one character.
C21_ZeroScoreExcluded ==
  \A m \in 1..Len(workerOutbox) :
     \A k \in 1..Len(workerOutbox[m].results) :
        MatchesQuery(workerOutbox[m].results[k], workerOutbox[m].query)

\* the normalized query of the oldest SEARCH message
HeadQuery == ToLowerCase(Trim(Head(workerInbox).query))

\* fuzzySearch ran for the query less than five minutes ago
ScoredWithinExpiry(query) ==
  \E k \in 1..Len(scored) :
     /\ scored[k].query = query
     /\ searchTime - scored[k].time < CACHE_EXPIRY

\* C22: when the worker receives a search for a normalized query that was
\* scored less than five minutes before, whatever calls came in between, it
\* answers with cached = true and fuzzySearch does not run again.
C22_SearchCacheHit ==
  [][ (WorkerSearch /\ ScoredWithinExpiry(HeadQuery))
        => /\ workerOutbox'[Len(workerOutbox')].cached
           /\ scored' = scored ]_vars

\* C23: while the query is empty or whitespace only, the photos on display
\* are the original photo list, unchanged.
C23_SearchPassThrough ==
  Len(Trim(searchQuery)) = 0 => DisplayedPhotos = allPhotos

\* a whitespace-only query whose timer has fired, typed after a search that
\* had found photos
C23_Witness ==
  /\ searchQuery = << " " >>
  /\ debounceTimeout = NoTimeout
  /\ searchTime > 0
  /\ scored # << >>
  /\ Len(allPhotos) > 0
  /\ searchResults = << >>

\* ------------------------------------------------------------------------
\* EngineSpec: UltraVirtualizationEngine.calculateLayout and its worker
\* (lib/ultra-virtualization-engine)
\* ------------------------------------------------------------------------
EnginePhotoIds == {1, 3}
EngineLists == UNION { [1..k -> EnginePhotoIds] : k \in 1..MaxEnginePhotos }
EngineWidths == {400, 800}
EngineColumnCounts == {1, 2}

\* the arguments of one calculateLayout call
EngineInputs ==
  [photos : EngineLists, containerWidth : EngineWidths,
   columnCount : EngineColumnCounts, gap : {DefaultGap}]

\* `${photos.length}-${config.containerWidth}-${config.columnCount}`
EngineKey(input) ==
  << Len(input.photos), input.containerWidth, input.columnCount >>

\* photoData.sort((a, b) => b.aspectRatio - a.aspectRatio) of the worker
WorkerSort(list) ==
  LET n == Len(list)
      Before(i, j) == Photo(list[i]).width * Photo(list[j]).height
                        > Photo(list[j]).width * Photo(list[i]).height
      Rank(i) == Cardinality({ j \in 1..n :
                   \/ Before(j, i)
                   \/ (j < i /\ ~Before(i, j)) }) + 1
  IN  SubSeq([k \in 1..n |-> list[CHOOSE i \in 1..n : Rank(i) = k]], 1, n)

\* columnHeights.indexOf(Math.min(...columnHeights)), 0-based
ShortestColumn(columnHeights) ==
  (CHOOSE c \in 1..Len(columnHeights) :
     /\ \A k \in 1..Len(columnHeights) : columnHeights[c] <= columnHeights[k]
     /\ \A k \in 1..(c - 1) : columnHeights[k] > columnHeights[c]) - 1

\* photoData.forEach of the worker from entry i on
RECURSIVE WorkerPlace(_, _, _, _, _, _)
WorkerPlace(sorted, i, items, columnHeights, columnWidth, gapWidth) ==
  IF i > Len(sorted) THEN items
  ELSE LET photo == Photo(sorted[i])
           shortestColumnIndex == ShortestColumn(columnHeights)
           itemHeight == Quot(columnWidth * photo.height, photo.width)
           item == [photo |-> photo.id, height |-> itemHeight,
                    column |-> shortestColumnIndex,
                    top |-> columnHeights[shortestColumnIndex + 1]]
       IN  WorkerPlace(sorted, i + 1, Append(items, item),
             [columnHeights EXCEPT ![shortestColumnIndex + 1] =
                @ + itemHeight + gapWidth],
             columnWidth, gapWidth)

\* calculateMasonryLayout of the worker script
WorkerLayout(input) ==
  IF Len(input.photos) = 0 \/ input.containerWidth = 0
       \/ input.columnCount = 0
    THEN << >>
  ELSE WorkerPlace(WorkerSort(input.photos), 1, << >>,
         [c \in 1..input.columnCount |-> 0],
         Quot(input.containerWidth - input.gap * (input.columnCount - 1),
              input.columnCount),
         input.gap)

\* the LAYOUT_RESULT message for one CALCULATE_LAYOUT message
LayoutResult(input) ==
  LET items == WorkerLayout(input)
  IN  [items |-> items,
       totalHeight |->
         IF Len(items) > 0
           THEN SetMax({ items[i].top + items[i].height :
                           i \in 1..Len(items) }) + input.gap
         ELSE 0]

EngineCacheHas(cache, key) == \E i \in 1..Len(cache) : cache[i].key = key

EngineCacheGet(cache, key) ==
  cache[CHOOSE i \in 1..Len(cache) : cache[i].key = key]

\* itemCache.set(cacheKey, items); heightCache.set(cacheKey, totalHeight)
EngineCacheSet(cache, key, message) ==
  LET entry == [key |-> key, items |-> message.items,
                totalHeight |-> message.totalHeight]
  IN  IF EngineCacheHas(cache, key)
        THEN [i \in 1..Len(cache) |->
                IF cache[i].key = key THEN entry ELSE cache[i]]
      ELSE Append(cache, entry)

\* the caches after the listeners i.. of pending calls have handled a message
RECURSIVE HandledBy(_, _, _, _)
HandledBy(cache, pending, i, message) ==
  IF i > Len(pending) THEN cache
  ELSE HandledBy(EngineCacheSet(cache, EngineKey(pending[i].input), message),
                 pending, i + 1, message)

\* the listeners a message event is dispatched to: every one registered
Handlers(pending) == pending

EngineInit ==
  /\ GridIdle
  /\ gpc = "engine"
  /\ PageInitial(0)
  /\ HookInitial
  /\ ViewIdle
  /\ SearchIdle
  /\ EngineIdle

\* calculateLayout(photos, config) up to its return: the cached layout, or a
\* promise with its listener added and the request posted
CalculateLayout ==
  /\ gpc = "engine"
  /\ engineCalls < MaxEngineCalls
  /\ \E input \in EngineInputs :
       LET call == [id |-> engineCalls + 1, input |-> input]
       IN  IF EngineCacheHas(itemCache, EngineKey(input))
             THEN /\ resolved' = Append(resolved,
                       [id |-> call.id, input |-> input,
                        items |-> EngineCacheGet(itemCache,
                                                 EngineKey(input)).items])
                  /\ UNCHANGED << listeners, engineInbox >>
           ELSE /\ listeners' = Append(listeners, call)
                /\ engineInbox' = Append(engineInbox, input)
                /\ UNCHANGED resolved
  /\ engineCalls' = engineCalls + 1
  /\ UNCHANGED << itemCache, engineOutbox, gridVars, pageVars, hookVars,
                  viewVars, searchVars >>

\* self.onmessage of the worker for the oldest CALCULATE_LAYOUT message
EngineWorker ==
  /\ gpc = "engine"
  /\ engineInbox # << >>
  /\ engineOutbox' = Append(engineOutbox, LayoutResult(Head(engineInbox)))
  /\ engineInbox' = Tail(engineInbox)
  /\ UNCHANGED << itemCache, listeners, resolved, engineCalls, gridVars,
                  pageVars, hookVars, viewVars, searchVars >>

\* the message event of the oldest LAYOUT_RESULT: every registered
\* handleMessage caches the items under its own key, removes itself and
\* resolves its promise
EngineMessage ==
  /\ gpc = "engine"
  /\ engineOutbox # << >>
  /\ LET message == Head(engineOutbox)
         handlers == Handlers(listeners)
     IN  /\ itemCache' = HandledBy(itemCache, handlers, 1, message)
         /\ resolved' = resolved \o
              [i \in 1..Len(handlers) |->
                 [id |-> handlers[i].id, input |-> handlers[i].input,
                  items |-> message.items]]
         /\ listeners' = SubSeq(listeners, Len(handlers) + 1, Len(listeners))
  /\ engineOutbox' = Tail(engineOutbox)
  /\ UNCHANGED << engineInbox, engineCalls, gridVars, pageVars, hookVars,
                  viewVars, searchVars >>

EngineNext == CalculateLayout \/ EngineWorker \/ EngineMessage

EngineSpec == EngineInit /\ [][EngineNext]_vars

\* ------------------------------------------------------------------------
\* Properties of the engine (EngineSpec)
\* ------------------------------------------------------------------------
\* the calculateLayout calls made so far, pending or resolved
EngineCallsMade ==
  { [id |-> listeners[i].id, input |-> listeners[i].input] :
      i \in 1..Len(listeners) }
  \cup { [id |-> resolved[i].id, input |-> resolved[i].input] :
           i \in 1..Len(resolved) }

\* the calls made so far differ pairwise in (photo count, containerWidth,
\* columnCount)
DistinctKeys ==
  \A a, b \in EngineCallsMade :
     a.id # b.id => EngineKey(a.input) # EngineKey(b.input)

\* C30: when the calls differ pairwise in (photo count, containerWidth,
\* columnCount), every promise is resolved with the layout of its own call's
\* input, and the engine's cache holds under each key the layout of the call
\* with that key.
C30_ResponsesReachOwnRequest ==
  DistinctKeys
    => /\ \A i \in 1..Len(resolved) :
            resolved[i].items = WorkerLayout(resolved[i].input)
       /\ \A i \in 1..Len(itemCache) :
            \E call \in EngineCallsMade :
               /\ EngineKey(call.input) = itemCache[i].key
               /\ itemCache[i].items = WorkerLayout(call.input)

\* ------------------------------------------------------------------------
\* Properties of the scroll and resize handling (ViewSpec)
\* ------------------------------------------------------------------------
\* C15: once scroll events have stopped, scrollVelocity is eventually 0 and
\* stays 0 for as long as the grid is mounted.
C15_VelocityReset == <>[](gridMounted => velocity = Zero)

\* C16: after the unmount no timer, animation frame or observer of the grid is
\* pending or connected.
C16_TeardownReleasesAll ==
  ~gridMounted =>
    /\ lastFunc = Never
    /\ debounceTimer = Never
    /\ scrollingTimeout = Never
    /\ ~rafPending
    /\ ~resizeObserving
    /\ ~loadMoreObserving

\* C17: two executions of the body of handleScroll are at least 16 ms apart.
C17_ScrollThrottle ==
  \A k \in 2..Len(bodyTimes) : bodyTimes[k] - bodyTimes[k - 1] >= ThrottleLimit

\* three raw events within one interval gave two executions, 16 ms apart
C17_Witness ==
  /\ rawEvents >= 3
  /\ Len(bodyTimes) = 2
  /\ bodyTimes[2] - bodyTimes[1] = ThrottleLimit
  /\ lastFunc = Never

\* ------------------------------------------------------------------------
\* Properties of usePhotos (PhotosSpec)
\* ------------------------------------------------------------------------
\* C12: when the fetch of a further page of the listing on display fails, the
\* error is set, loading is false and photos is the list held before the call.
C12_FailedLoadMoreKeepsItems ==
  [][ \A i \in 1..Len(hookInflight) :
        (hookInflight[i].further /\ hookInflight[i].alone
           /\ PhotosRejectCall(i))
          => /\ hookError' # "null"
             /\ ~hookLoading'
             /\ hookPhotos' = hookInflight[i].before ]_vars

\* C14: when a response carries photos but no page, per_page and total_results,
\* loadPhotos stores the photos, sets no error and leaves hasMore true.
C14_PartialResponse ==
  [][ \A i \in 1..Len(hookInflight) :
        (Len(SourcePage(hookInflight[i].query, hookInflight[i].page,
                        HookPageSize).photos) > 0
           /\ PhotosResolveCall(i, TRUE))
          => /\ hookPhotos' = (IF hookInflight[i].page = 1 THEN << >>
                               ELSE hookPhotos)
                  \o SourcePage(hookInflight[i].query, hookInflight[i].page,
                                HookPageSize).photos
             /\ hookError' = hookError
             /\ hookHasMore' ]_vars

\* C10: when loadPhotos(q1) was followed by loadPhotos(q2), q2 # q1, before
\* q1's response arrived, then once both responses have arrived, in either
\* order, photos is exactly q2's response.
C10_StaleSearchDiscarded ==
  (hookCalls = 2 /\ superseded /\ hookInflight = << >> /\ hookError = "null")
    => hookPhotos = SourcePage(currentQuery, 1, HookPageSize).photos

\* pages 1..k of a listing, concatenated
RECURSIVE PagesUpTo(_, _)
PagesUpTo(query, k) ==
  IF k = 0 THEN << >>
  ELSE PagesUpTo(query, k - 1) \o SourcePage(query, k, HookPageSize).photos

\* every loadPhotos call so far had the same argument, was made with no other
\* call waiting, and its response has arrived complete
SameListingInTurn ==
  /\ hookRequests # << >>
  /\ \A i \in 1..Len(hookRequests) :
        /\ hookRequests[i].query = hookRequests[1].query
        /\ hookRequests[i].alone
        /\ hookRequests[i].outcome = "complete"

\* C24: when loadPhotos has been called k times in turn with the same
\* argument and every call succeeded, the calls requested pages 1, 2, .., k
\* and photos is the concatenation of pages 1..k of that listing.
C24_PageAccumulation ==
  SameListingInTurn
    => /\ \A i \in 1..Len(hookRequests) : hookRequests[i].page = i
       /\ hookPhotos = PagesUpTo(hookRequests[1].query, Len(hookRequests))

\* request i was made for another query than the request before it, in turn,
\* after that request's response had arrived complete
QueryChanged(i) ==
  /\ i \in 2..Len(hookRequests)
  /\ QueryOrEmpty(hookRequests[i].query)
       # QueryOrEmpty(hookRequests[i - 1].query)
  /\ hookRequests[i].alone
  /\ \A j \in 1..(i - 1) : hookRequests[j].outcome = "complete"

\* C25: a loadPhotos call whose query differs from the previous one requests
\* page 1 of the new query, whatever page the previous query had reached, and
\* once its response has arrived photos holds exactly that response's photos.
C25_QueryChangeRestartsPaging ==
  \A i \in 1..Len(hookRequests) :
     QueryChanged(i)
       => /\ hookRequests[i].page = 1
          /\ (i = Len(hookRequests) /\ hookRequests[i].outcome = "complete")
               => hookPhotos
                    = SourcePage(hookRequests[i].query, 1, HookPageSize).photos

\* ------------------------------------------------------------------------
\* Properties of HomePage (PageSpec)
\* ------------------------------------------------------------------------
Unresolved == { i \in 1..Len(inflight) : ~inflight[i].aborted }

\* a step in which the fetch of request i of inflight resolved
Resolved(i) ==
  /\ i \in 1..Len(inflight)
  /\ inflight[i].kind \in {"load", "more"}
  /\ inflight' = Remove(inflight, i)
  /\ lastEvent' = "loaded"

ResponseOf(r) == CuratedPage(r.page, r.perPage, sourceTotal)

\* a step that issued a fetch from loadMore
MoreIssued ==
  \E i \in 1..Len(inflight') :
     inflight'[i].kind = "more" /\ inflight'[i].id > issued

\* the source's 40-item pages 1..k, concatenated
RECURSIVE ListingUpTo(_)
ListingUpTo(k) ==
  IF k = 0 THEN << >>
  ELSE ListingUpTo(k - 1) \o CuratedPage(k, PageSize, sourceTotal).photos

\* C29: whenever no load is in progress after the initial load, the preload
\* and loadMore calls in any order, photos contains no photo twice and equals
\* the source's 40-item pages 1..page concatenated in order.
C29_ConcatenationOfPages ==
  (mounted /\ ~loading /\ error = "null" /\ Len(homePhotos) > 0)
    => /\ \A i, j \in 1..Len(homePhotos) :
            i # j => homePhotos[i] # homePhotos[j]
       /\ homePhotos = ListingUpTo(page)

\* C11: a listing fetch that resolves with fewer than 40 photos sets hasMore to
\* false, and from a state where hasMore is false it stays false and no sentinel
\* callback and no loadMore call issues a fetch.
C11_PaginationExhaustion ==
  [][ /\ \A i \in 1..Len(inflight) :
           (Resolved(i) /\ Len(ResponseOf(inflight[i]).photos) < PageSize)
             => ~hasMore'
      /\ ~hasMore => (~hasMore' /\ ~MoreIssued) ]_vars

\* the sentinel intersected after the last, short page was loaded
C11_Witness ==
  /\ ~hasMore
  /\ lastEvent = "sentinel"
  /\ Len(homePhotos) = sourceTotal
  /\ sourceTotal > PageSize

\* a step in which the aborted fetch of request i of inflight settled
AbortSettled(i) ==
  /\ i \in 1..Len(inflight)
  /\ inflight[i].aborted
  /\ inflight' = Remove(inflight, i)
  /\ lastEvent' = "aborted"

\* C13: when a fetch that a newer request superseded settles, error, photos,
\* page and hasMore keep their values and loading and the abort-controller
\* reference stay as the newer request set them.
C13_AbortIsSilent ==
  [][ \A i \in 1..Len(inflight) :
        AbortSettled(i)
          => /\ error' = error
             /\ homePhotos' = homePhotos
             /\ page' = page
             /\ hasMore' = hasMore
             /\ loading' = loading
             /\ abortControllerRef' = abortControllerRef ]_vars

\* C9: at every moment at most one request for the plain listing, issued by
\* loadCuratedPhotos, loadMore or the preload, is unresolved and un-aborted.
C9_OneFetchInFlight == Cardinality(Unresolved) <= 1

\* ------------------------------------------------------------------------
\* Properties of the layout and of the visible set (GridSpec)
\* ------------------------------------------------------------------------
Laid == gpc \in {"laid", "selected"}
Selected == gpc = "selected"

ItemIndices == 1..Len(gridItems)

\* the item's vertical extent meets the expanded viewport of the latest query
Intersects(item) ==
  /\ item.top + item.height >= ViewportTop(scrollTop, scrollVelocity)
  /\ item.top <= ViewportBottom(scrollTop, containerHeight, scrollVelocity)

InVisibleItems(item) ==
  \E m \in 1..Len(visibleItems) : visibleItems[m] = item

\* C1: every item of the layout whose vertical extent meets the expanded
\* viewport [scrollTop - buffer, scrollTop + containerHeight + buffer] is in
\* the list getVisibleItems returns.
C1_VisibleSetComplete ==
  Selected =>
    \A k \in ItemIndices : Intersects(gridItems[k]) => InVisibleItems(gridItems[k])

\* C2: in the list calculateMasonryLayout returns, item.top is non-decreasing
\* in array index order.
C2_TopsNonDecreasing ==
  Laid =>
    \A i, j \in ItemIndices : i < j => gridItems[i].top <= gridItems[j].top

\* C3: with the layout, scrollTop and containerHeight fixed, a scroll
\* velocity whose buffer is at least as large never yields fewer visible items.
C3_VelocityMonotone ==
  Selected =>
    \A v \in Velocities :
      Buffer(v, DefaultBuffer) >= Buffer(scrollVelocity, DefaultBuffer) =>
        Len(GetVisibleItems(gridItems, scrollTop, containerHeight, v))
          >= Len(visibleItems)

\* C4: every returned item has columnSpan >= 1, column >= 0 and
\* column + columnSpan <= columnCount.
C4_ColumnSpanBound ==
  Laid =>
    \A k \in ItemIndices :
      /\ gridItems[k].columnSpan >= 1
      /\ gridItems[k].column >= 0
      /\ gridItems[k].column + gridItems[k].columnSpan <= columnCount

\* a layout in which the cap at columnCount cut a wider span down and in
\* which an item starts to the right of column 0
C4_Witness ==
  /\ gpc = "laid"
  /\ \E k \in ItemIndices :
       /\ gridItems[k].columnSpan = columnCount
       /\ ColumnSpanUncapped(Photo(gridItems[k].photo), columnCount) > columnCount
  /\ \E k \in ItemIndices : gridItems[k].column > 0

AllPlacedDownward ==
  \A k \in ItemIndices : gridItems[k].top >= 0 /\ gridItems[k].height > 0

\* C5 as stated: whenever containerWidth > 0, columnCount >= 1 and gap >= 0
\* (photos have positive width and height), every item has top >= 0 and
\* height > 0.
C5_NonNegativePlacementStated ==
  (Laid /\ containerWidth > 0 /\ columnCount >= 1 /\ gap >= 0)
    => AllPlacedDownward

\* C5 amended: whenever the column width is positive, that is
\* containerWidth > gap * (columnCount - 1), with columnCount >= 1 and
\* gap >= 0, every item has top >= 0 and height > 0.
C5_NonNegativePlacement ==
  (Laid /\ columnCount >= 1 /\ gap >= 0
        /\ containerWidth > gap * (columnCount - 1))
    => AllPlacedDownward

\* a layout with a positive column width of several columns in which some
\* item was stacked below another one
C5_Witness ==
  /\ gpc = "laid"
  /\ columnCount >= 2
  /\ containerWidth > gap * (columnCount - 1)
  /\ \E k \in ItemIndices : gridItems[k].top > 0

\* the largest top + height over all items, 0 for the empty list
LargestBottom(items) ==
  IF Len(items) = 0 THEN 0
  ELSE SetMax({ items[i].top + items[i].height : i \in 1..Len(items) })

\* C26 as stated: calculateTotalHeight(items) equals the largest top + height
\* over all items (0 for the empty list), for every list calculateMasonryLayout
\* returns.
C26_TotalHeightCoversStated ==
  (gpc = "laid" /\ ~thrown)
    => CalculateTotalHeight(gridItems) = LargestBottom(gridItems)

\* C26 amended: for every list calculateMasonryLayout returns with a positive
\* column width, calculateTotalHeight(items) equals the largest top + height
\* over all items (0 for the empty list) and no item extends below it.
C26_TotalHeightCovers ==
  (gpc = "laid" /\ ~thrown /\ columnCount >= 1
        /\ containerWidth > gap * (columnCount - 1))
    => LET totalHeight == CalculateTotalHeight(gridItems)
       IN  /\ totalHeight = LargestBottom(gridItems)
           /\ \A k \in ItemIndices :
                gridItems[k].top + gridItems[k].height <= totalHeight

\* a layout with a positive column width in which some column holds several
\* items and the columns end at different heights
C26_Witness ==
  /\ gpc = "laid" /\ ~thrown /\ columnCount >= 2
  /\ containerWidth > gap * (columnCount - 1)
  /\ \E i, j \in ItemIndices :
       /\ i # j
       /\ gridItems[i].column = gridItems[j].column
  /\ \E i \in ItemIndices :
       gridItems[i].top + gridItems[i].height
         < CalculateTotalHeight(gridItems)

\* C27: every item getVisibleItems returns has top <= scrollTop +
\* containerHeight + buffer and top + height >= scrollTop - buffer, for every
\* layout with a positive column width and every scroll position.
C27_OnlyOverlappingItems ==
  (Selected /\ columnCount >= 1 /\ containerWidth > gap * (columnCount - 1))
    => \A m \in 1..Len(visibleItems) : Intersects(visibleItems[m])

\* the column ranges [column, column + columnSpan) of two items intersect
SharesColumn(a, b) ==
  /\ a.column < b.column + b.columnSpan
  /\ b.column < a.column + a.columnSpan

\* item b starts at least gap below the bottom of item a
Below(a, b) == b.top >= a.top + a.height + gap

\* C28: in every list calculateMasonryLayout returns with a positive column
\* width and gap >= 0, of any two items whose column ranges intersect one
\* starts at least gap below the bottom of the other, so that their vertical
\* ranges are disjoint.
C28_NoOverlap ==
  (gpc = "laid" /\ ~thrown /\ columnCount >= 1 /\ gap >= 0
        /\ containerWidth > gap * (columnCount - 1))
    => \A i, j \in ItemIndices :
         (i < j /\ SharesColumn(gridItems[i], gridItems[j]))
           => \/ Below(gridItems[i], gridItems[j])
              \/ Below(gridItems[j], gridItems[i])

\* a layout with a positive column width in which an item lies below the
\* second column of an item that spans two columns
C28_Witness ==
  /\ gpc = "laid" /\ ~thrown /\ columnCount >= 2
  /\ containerWidth > gap * (columnCount - 1)
  /\ \E i, j \in ItemIndices :
       /\ gridItems[j].columnSpan = 2
       /\ gridItems[i].column = gridItems[j].column + 1
       /\ gridItems[i].columnSpan = 1
       /\ Below(gridItems[j], gridItems[i])

\* C7: the i-th returned item refers to the i-th photo of the input list.
C7_StableOutputOrder ==
  Laid =>
    /\ Len(gridItems) = Len(photos)
    /\ \A i \in ItemIndices : gridItems[i].photo = photos[i]

\* ------------------------------------------------------------------------
\* Properties of the guard and of the four-photo scenario
\* ------------------------------------------------------------------------
InvalidInput == Len(photos) = 0 \/ containerWidth <= 0 \/ columnCount <= 0

\* C18: for an empty photo list, a containerWidth <= 0 or a columnCount <= 0
\* calculateMasonryLayout returns the empty list and does not throw.
C18_InvalidInputEmptyLayout ==
  (Laid /\ InvalidInput) => (gridItems = << >> /\ ~thrown)

SameAspectRatio ==
  \A i, j \in 1..Len(photos) :
     Photo(photos[i]).width * Photo(photos[j]).height
       = Photo(photos[j]).width * Photo(photos[i]).height

ItemsInColumn(c) ==
  Cardinality({ i \in ItemIndices : gridItems[i].column = c })

Balanced == ItemsInColumn(0) = 2 /\ ItemsInColumn(1) = 2

\* C20 as stated: four photos of one aspect ratio in two columns give two
\* items in column 0 and two in column 1.
C20_BalancedColumnsStated ==
  (Laid /\ Len(photos) = ScenarioPhotos /\ columnCount = 2
     /\ SameAspectRatio) => Balanced

\* C20: four photos of one aspect ratio that is at most 1 (span 1), in two
\* columns of positive width, give two items in column 0 and two in column 1.
C20_BalancedColumns ==
  (Laid /\ Len(photos) = ScenarioPhotos /\ columnCount = 2
     /\ SameAspectRatio
     /\ \A i \in 1..Len(photos) :
          ~RatioGreater(Photo(photos[i]), ASPECT_RATIO_THRESHOLD)
     /\ containerWidth > gap * (columnCount - 1)) => Balanced

C20_Witness ==
  /\ Laid /\ Len(photos) = ScenarioPhotos /\ columnCount = 2
  /\ SameAspectRatio
  /\ \A i \in 1..Len(photos) :
       ~RatioGreater(Photo(photos[i]), ASPECT_RATIO_THRESHOLD)
  /\ containerWidth > gap * (columnCount - 1)
  /\ Len(gridItems) = ScenarioPhotos
  /\ Balanced

\* ------------------------------------------------------------------------
\* Properties of the layout cache (CacheSpec)
\* ------------------------------------------------------------------------
\* the entry the latest call stored
NewEntry ==
  [key |-> CacheKey(photos', containerWidth', columnCount'),
   items |-> gridItems']

\* C19: after every call the cache holds at most 100 entries; entries are
\* deleted only when the insertion made it exceed 100, oldest first, and
\* the entry just inserted stays.
C19_BoundedLayoutCache ==
  [][ calls' = calls + 1 =>
        /\ Len(layoutCache') <= LayoutCacheLimit
        /\ IF placed'
           THEN \E k \in 0..Len(layoutCache) :
                  /\ layoutCache' = SubSeq(layoutCache, k + 1,
                                           Len(layoutCache))
                                      \o << NewEntry >>
                  /\ k > 0 => Len(layoutCache) + 1 > LayoutCacheLimit
           ELSE layoutCache' = layoutCache ]_vars

\* a call has just evicted: the cache was full and holds the newest 50 now
C19_Witness ==
  /\ calls > 0
  /\ placed
  /\ Len(layoutCache) = LayoutCacheKeep
  /\ layoutCache[1].key = CacheKey(<< 2 >>, FillWidth(LayoutCacheKeep + 2), 2)

Occurrences(seq, x) == Cardinality({ i \in 1..Len(seq) : seq[i] = x })

ItemPhotos == [k \in ItemIndices |-> gridItems[k].photo]

\* C6: the list a call returns has exactly one item per photo of that call's
\* input and every item.photo is a photo of that input, whatever photo sets
\* earlier calls were given.
C6_LayoutBelongsToInput ==
  calls >= 1 =>
    /\ Len(gridItems) = Len(photos)
    /\ \A id \in PhotoIds : Occurrences(ItemPhotos, id) = Occurrences(photos, id)

SameInputsAsBefore ==
  /\ calls >= 2
  /\ prevCall.photos = photos
  /\ prevCall.containerWidth = containerWidth
  /\ prevCall.columnCount = columnCount
  /\ prevCall.gap = gap

\* C8: the second of two consecutive calls with identical inputs returns a
\* list equal to the first call's, does not run the placement loop, and
\* (the inputs passing the empty-input guard) is answered by layoutCache.
C8_Idempotent ==
  SameInputsAsBefore =>
    /\ gridItems = prevCall.items
    /\ ~placed
    /\ (Len(photos) > 0 => cacheHit)

\* a repeated call for a list of several photos, answered by the cache
C8_Witness ==
  /\ SameInputsAsBefore
  /\ Len(photos) >= 2
  /\ cacheHit
  /\ Len(gridItems) = Len(photos)

====
